---------------------------- MODULE Spec2Model ----------------------------
(***************************************************************************)
(* A model of the BuildStream element loader (buildstream/_loader/loader.py)*)
(* and of the junction resolution it performs.                             *)
(*                                                                         *)
(* Element and junction file names are small naturals; the order of the    *)
(* naturals stands for the lexicographic order of the file names.  A       *)
(* project is a directory of element files; project 0 is the top-level     *)
(* project, the others are the projects found in junction sources.         *)
(***************************************************************************)
EXTENDS Integers, Sequences, FiniteSets, TLC

\* ------------------------------------------------------------------ bounds
NumElems == 4      \* ordinary element file names are 1..NumElems
NumJuncs == 3      \* junction file names follow the element names
NumSubs == 2       \* projects that junction sources can contain
MaxDeps == 3       \* longest dependency list declared by the target
MaxEdges == 2      \* dependencies declared by the other elements, in all
MaxCalls == 4      \* direct calls of _get_loader in one behaviour

Elems == 1..NumElems
JNames == (NumElems + 1)..(NumElems + NumJuncs)
Names == Elems \cup JNames
TopProject == 0
SubProjects == 1..NumSubs
Projects == {TopProject} \cup SubProjects

\* ------------------------------------------------------------ value types
NoJunction == 0        \* Dependency.junction is None
NoLoader == 0          \* the None kept in Loader._loaders, or no parent
NoTempdir == <<>>      \* Loader._tempdir is None; the empty path
NoProjectConf == 0     \* the staged sources hold no project.conf
BadProjectConf == NumSubs + 1  \* they hold a project.conf that does not load
DummyName == 0         \* the '' key of the dummy target

NoError == "none"
MISSING_FILE == "MISSING_FILE"
INVALID_DATA == "INVALID_DATA"
CIRCULAR_DEPENDENCY == "CIRCULAR_DEPENDENCY"
CONFLICTING_JUNCTION == "CONFLICTING_JUNCTION"
SUBPROJECT_FETCH_NEEDED == "SUBPROJECT_FETCH_NEEDED"
SUBPROJECT_INCONSISTENT == "SUBPROJECT_INCONSISTENT"
INVALID_JUNCTION == "INVALID_JUNCTION"
MISSING_PROJECT_CONF == "MISSING_PROJECT_CONF"
INVALID_YAML == "INVALID_YAML"

DepTypes == {"build", "runtime", "all"}

\* Dependency(name, dep_type, junction)
Dependency(name, dep_type, junction) ==
    [name |-> name, dep_type |-> dep_type, junction |-> junction]

\* An element file: its kind, its declared dependencies and, for a junction,
\* the consistency of each source and the project the sources contain.
File(kind, deps, sources, project) ==
    [kind |-> kind, deps |-> deps, sources |-> sources, project |-> project]

NoFile == File("nofile", <<>>, <<>>, NoProjectConf)
Element(deps) == File("stack", deps, <<>>, NoProjectConf)
Junction(sources, project) == File("junction", <<>>, sources, project)

VARIABLES
    files,              \* [Projects -> [Names -> File]]: the element files on disk
    targets,            \* Loader._targets of the root Loader
    fetch_subprojects,  \* Context._fetch_subprojects
    loaders,            \* the Loader objects, by id; loaders[1] is the root
    metas,              \* the MetaElement objects, by id
    builddir,           \* Context.builddir
    dirs,               \* the temporary checkout directories that exist
    log,                \* what the collaborators were asked to do
    err,                \* the LoadError reason the last call raised
    last,               \* the last call and what it returned
    element,            \* a JunctionElement and what its preflight() raised
    refs,               \* a ProjectRefs object
    context,            \* a Context object, apart from its builddir
    share               \* an artifact share: its object store and its artifacts

vars == <<files, targets, fetch_subprojects, builddir, loaders, metas, dirs, log, err, last,
          element, refs, context, share>>
world == <<files, targets, fetch_subprojects, builddir>>
program == <<loaders, metas, dirs, log, err, last>>
apart == <<element, refs, context, share>>

\* an object no behaviour of the specification at hand makes
Unused == <<>>

\* ---------------------------------------------------------------- helpers
Put(f, k, v) == [x \in DOMAIN f \cup {k} |-> IF x = k THEN v ELSE f[x]]

EmptyMap == [x \in {} |-> 0]

Range(s) == {s[i] : i \in DOMAIN s}

\* Loader.__init__
NewLoader(project, parent, tempdir, junction) ==
    [project |-> project, parent |-> parent, tempdir |-> tempdir,
     junction |-> junction,
     elements |-> EmptyMap, meta_elements |-> EmptyMap, loaders |-> EmptyMap,
     order |-> <<>>]

\* A path is the sequence of its components and separators.
Sep == "/"

\* os.path.join(dir, name)
Join(dir, name) ==
    IF dir = <<>> THEN <<name>>
    ELSE IF dir[Len(dir)] = Sep THEN Append(dir, name)
    ELSE dir \o <<Sep, name>>

\* path.startswith(prefix)
StartsWith(path, prefix) ==
    /\ Len(prefix) <= Len(path)
    /\ SubSeq(path, 1, Len(prefix)) = prefix

\* self._loaders[filename] = loader: a dict keeps the order of insertion
SetLoader(S, l, filename, loader) ==
    [S EXCEPT !.loaders[l].loaders = Put(@, filename, loader),
              !.loaders[l].order = Append(@, filename)]

\* An optional value: None, or the value
None == <<>>
Some(v) == <<v>>

\* MetaElement(project, name, kind, ...)
NewMeta(loader, name, kind) ==
    [loader |-> loader, name |-> name, kind |-> kind,
     build_dependencies |-> <<>>, dependencies |-> <<>>]

\* The mutable state the recursive methods thread through their calls.
State(ls, ms, ds, lg, e) ==
    [loaders |-> ls, metas |-> ms, dirs |-> ds, log |-> lg, err |-> e]

\* raise LoadError(reason, ...)
Raise(S, reason) == [S EXCEPT !.err = reason]

Logged(S, entry) == [S EXCEPT !.log = Append(@, entry)]

Ret(S, value) == [S |-> S, ret |-> value]

\* ------------------------------------------------- loading and junctions
\* Each method is one operator from a state to a state (and a return value);
\* where the code goes on after a call that may raise, the rest of the method
\* is an operator of its own that takes what the call left.
RECURSIVE LoadFile(_, _, _)
RECURSIVE LoadFileDeps(_, _, _, _)
RECURSIVE GetLoader(_, _, _, _)
RECURSIVE CollectElement(_, _, _)
RECURSIVE CollectDeps(_, _, _, _, _)

\* Loader._get_loader_for_dep
GetLoaderForDep(S, l, dep) ==
    IF dep.junction # NoJunction THEN S.loaders[l].loaders[dep.junction] ELSE l

\* source.get_consistency(), for source i of junction `filename` of `project`
GetConsistency(S, project, filename, i) ==
    IF \E l \in DOMAIN S.loaders : <<"fetch", l, project, filename, i>> \in Range(S.log)
    THEN "CACHED"
    ELSE files[project][filename].sources[i]

\* Loader._load_file, once the file was found: ticker, _yaml.load, LoadElement
\* and the entry in self._elements
LoadElement(S, l, filename) ==
    [Logged(Logged(S, <<"tick", l, filename>>), <<"parse", l, filename>>)
        EXCEPT !.loaders[l].elements =
                   Put(@, filename, files[S.loaders[l].project][filename].deps)]

\* a _load_file that takes a file it cannot find for an element without
\* dependencies
LoadFileLenient(S, l, filename) ==
    IF filename \in DOMAIN S.loaders[l].elements
    THEN S
    ELSE LoadFileDeps(LoadElement(S, l, filename), l, filename, 1)

\* a _load_file that calls the ticker before it looks into self._elements
LoadFileTicking(S, l, filename) ==
    IF filename \in DOMAIN S.loaders[l].elements
    THEN Logged(S, <<"tick", l, filename>>)
    ELSE IF files[S.loaders[l].project][filename].kind = "nofile"
         THEN Raise(Logged(S, <<"tick", l, filename>>), MISSING_FILE)
         ELSE LoadFileDeps(LoadElement(S, l, filename), l, filename, 1)

\* a _load_file that takes a file met again for a circular dependency
LoadFileDetecting(S, l, filename) ==
    IF filename \in DOMAIN S.loaders[l].elements
    THEN Raise(S, CIRCULAR_DEPENDENCY)
    ELSE IF files[S.loaders[l].project][filename].kind = "nofile"
         THEN Raise(Logged(S, <<"tick", l, filename>>), MISSING_FILE)
         ELSE LoadFileDeps(LoadElement(S, l, filename), l, filename, 1)

\* Loader._load_file
LoadFile(S, l, filename) ==
    IF filename \in DOMAIN S.loaders[l].elements
    THEN S
    ELSE IF files[S.loaders[l].project][filename].kind = "nofile"
         THEN Raise(Logged(S, <<"tick", l, filename>>), MISSING_FILE)
         ELSE LoadFileDeps(LoadElement(S, l, filename), l, filename, 1)

\* a _load_file that lets an element depend on a junction element
CheckDepKindNever(S, loader, dep) == S

\* Loader._load_file: the test of the kind of the dependency just loaded
CheckDepKind(S, loader, dep) ==
    IF S.err = NoError /\ files[S.loaders[loader].project][dep.name].kind = "junction"
    THEN Raise(S, INVALID_DATA)
    ELSE S

\* Loader._load_file: loader._load_file(dep.name), G the loader and the state
LoadDepIn(G, dep) ==
    IF G.S.err # NoError
    THEN G.S
    ELSE CheckDepKind(LoadFile(G.S, G.ret, dep.name), G.ret, dep)

\* Loader._load_file: self._get_loader(dep.junction), S what the load of the
\* junction file left
LoadDepJunction(S, l, dep) ==
    IF S.err # NoError THEN Ret(S, NoLoader) ELSE GetLoader(S, l, dep.junction, 0)

\* Loader._load_file: the body of the loop over element.deps
LoadDep(S, l, dep) ==
    LoadDepIn(IF dep.junction # NoJunction
              THEN LoadDepJunction(LoadFile(S, l, dep.junction), l, dep)
              ELSE Ret(S, l),
              dep)

\* Loader._load_file: the next turn of the loop, unless the last one raised
LoadFileNext(S, l, filename, i) ==
    IF S.err # NoError THEN S ELSE LoadFileDeps(S, l, filename, i + 1)

\* the loop of Loader._load_file over element.deps, from the i-th on
LoadFileDeps(S, l, filename, i) ==
    IF i > Len(S.loaders[l].elements[filename])
    THEN S
    ELSE LoadFileNext(LoadDep(S, l, S.loaders[l].elements[filename][i]),
                      l, filename, i)

\* Loader._collect_element: the MetaElement and its entry in _meta_elements
NewMetaElement(S, l, element_name) ==
    [S EXCEPT !.metas = Append(@, NewMeta(l, element_name,
                                          files[S.loaders[l].project][element_name].kind)),
              !.loaders[l].meta_elements = Put(@, element_name, Len(S.metas) + 1)]

\* a _collect_element that does not look an element up in _meta_elements
CollectElementAfresh(S, l, element_name) ==
    CollectDeps(NewMetaElement(S, l, element_name), l, element_name, Len(S.metas) + 1, 1)

\* Loader._collect_element
CollectElement(S, l, element_name) ==
    IF element_name \in DOMAIN S.loaders[l].meta_elements
    THEN Ret(S, S.loaders[l].meta_elements[element_name])
    ELSE CollectDeps(NewMetaElement(S, l, element_name), l, element_name,
                     Len(S.metas) + 1, 1)

\* a _collect_element that takes build for runtime and runtime for build
AppendDepSwapped(S, m, dep, meta_dep) ==
    [S EXCEPT !.metas[m].build_dependencies =
                  IF dep.dep_type # "build" THEN Append(@, meta_dep) ELSE @,
              !.metas[m].dependencies =
                  IF dep.dep_type # "runtime" THEN Append(@, meta_dep) ELSE @]

\* Loader._collect_element: the appends of meta_dep to the lists of m
AppendDep(S, m, dep, meta_dep) ==
    [S EXCEPT !.metas[m].build_dependencies =
                  IF dep.dep_type # "runtime" THEN Append(@, meta_dep) ELSE @,
              !.metas[m].dependencies =
                  IF dep.dep_type # "build" THEN Append(@, meta_dep) ELSE @]

\* Loader._collect_element: the loop after loader._collect_element(dep.name)
\* returned C
CollectNext(C, l, element_name, m, i, dep) ==
    IF C.S.err # NoError
    THEN Ret(C.S, m)
    ELSE CollectDeps(AppendDep(C.S, m, dep, C.ret), l, element_name, m, i + 1)

\* a _collect_element that collects the dependencies of a junction as well
CollectDepsOfAll(S, l, element_name, m, i) ==
    IF i > Len(S.loaders[l].elements[element_name])
    THEN Ret(S, m)
    ELSE CollectNext(
             CollectElement(S, GetLoaderForDep(S, l, S.loaders[l].elements[element_name][i]),
                            S.loaders[l].elements[element_name][i].name),
             l, element_name, m, i, S.loaders[l].elements[element_name][i])

\* the loop of Loader._collect_element over element.deps, from the i-th on
CollectDeps(S, l, element_name, m, i) ==
    IF i > Len(S.loaders[l].elements[element_name])
    THEN Ret(S, m)
    ELSE IF S.metas[m].kind = "junction"
    THEN Ret(Raise(S, INVALID_DATA), m)
    ELSE CollectNext(
             CollectElement(S, GetLoaderForDep(S, l, S.loaders[l].elements[element_name][i]),
                            S.loaders[l].elements[element_name][i].name),
             l, element_name, m, i, S.loaders[l].elements[element_name][i])

RECURSIVE CheckSources(_, _, _, _)

\* a _get_loader that fetches whether or not fetching is enabled
CheckSourcesFetching(S, l, filename, i) ==
    IF i > Len(files[S.loaders[l].project][filename].sources)
    THEN S
    ELSE IF GetConsistency(S, S.loaders[l].project, filename, i) = "RESOLVED"
    THEN CheckSources(Logged(S, <<"fetch", l, S.loaders[l].project, filename, i>>),
                      l, filename, i + 1)
    ELSE IF GetConsistency(S, S.loaders[l].project, filename, i) = "INCONSISTENT"
    THEN Raise(S, SUBPROJECT_INCONSISTENT)
    ELSE CheckSources(S, l, filename, i + 1)

\* a _get_loader that takes a source without a ref for a cached one
CheckSourcesUnpinned(S, l, filename, i) ==
    IF i > Len(files[S.loaders[l].project][filename].sources)
    THEN S
    ELSE IF GetConsistency(S, S.loaders[l].project, filename, i) = "RESOLVED"
    THEN IF fetch_subprojects
         THEN CheckSources(Logged(S, <<"fetch", l, S.loaders[l].project, filename, i>>),
                           l, filename, i + 1)
         ELSE Raise(S, SUBPROJECT_FETCH_NEEDED)
    ELSE CheckSources(S, l, filename, i + 1)

\* the loop of Loader._get_loader over element.sources(), from the i-th on
CheckSources(S, l, filename, i) ==
    LET project == S.loaders[l].project
    IN  IF i > Len(files[project][filename].sources)
        THEN S
        ELSE LET c == GetConsistency(S, project, filename, i)
             IN  IF c = "RESOLVED"
                 THEN IF fetch_subprojects
                      THEN CheckSources(Logged(S, <<"fetch", l, project, filename, i>>),
                                        l, filename, i + 1)
                      ELSE Raise(S, SUBPROJECT_FETCH_NEEDED)
                 ELSE IF c = "INCONSISTENT"
                 THEN Raise(S, SUBPROJECT_INCONSISTENT)
                 ELSE CheckSources(S, l, filename, i + 1)

\* Loader._get_loader: tempfile.mkdtemp and element._stage_sources_at
Staged(S, l, filename, basedir) ==
    [Logged(Logged(S, <<"mkdtemp", basedir>>), <<"stage", l, filename, basedir>>)
        EXCEPT !.dirs = @ \cup {basedir}]

\* Project(project_dir, self._context, junction=element): the reason of the
\* LoadError it raises, if any
ProjectError(S, l, filename) ==
    IF files[S.loaders[l].project][filename].project = NoProjectConf
    THEN MISSING_PROJECT_CONF
    ELSE IF files[S.loaders[l].project][filename].project = BadProjectConf
    THEN INVALID_YAML
    ELSE NoError

\* a _get_loader that lets every error of Project() through as it is
LoadProjectReraising(S, l, filename, basedir) ==
    IF ProjectError(S, l, filename) # NoError
    THEN Ret(Raise(S, ProjectError(S, l, filename)), NoLoader)
    ELSE Ret([S EXCEPT !.loaders =
                 [Append(@, NewLoader(files[S.loaders[l].project][filename].project,
                                      l, basedir, filename))
                     EXCEPT ![l].loaders = Put(@, filename, Len(S.loaders) + 1),
                            ![l].order = Append(@, filename)]],
             Len(S.loaders) + 1)

\* Loader._get_loader: Project(project_dir, ...) and its except clause, then
\* the child Loader and its entry in self._loaders
LoadProject(S, l, filename, basedir) ==
    IF ProjectError(S, l, filename) = MISSING_PROJECT_CONF
    THEN Ret(Raise(S, INVALID_JUNCTION), NoLoader)
    ELSE IF ProjectError(S, l, filename) # NoError
    THEN Ret(Raise(S, ProjectError(S, l, filename)), NoLoader)
    ELSE Ret([S EXCEPT !.loaders =
                 [Append(@, NewLoader(files[S.loaders[l].project][filename].project,
                                      l, basedir, filename))
                     EXCEPT ![l].loaders = Put(@, filename, Len(S.loaders) + 1),
                            ![l].order = Append(@, filename)]],
             Len(S.loaders) + 1)

\* tempfile.mkdtemp(prefix=..., dir=self._context.builddir): a name no
\* directory made before has, joined to dir
Mkdtemp(S, dir) ==
    Join(dir, ToString(Cardinality({i \in DOMAIN S.log : S.log[i][1] = "mkdtemp"}) + 1))

\* a _get_loader that makes the checkout directory before it looks at the
\* sources
StageAndLoadDirectoryFirst(S, l, filename) ==
    IF S.err # NoError
    THEN Ret([Logged(S, <<"mkdtemp", Mkdtemp(S, builddir)>>)
                 EXCEPT !.dirs = @ \cup {Mkdtemp(S, builddir)}],
             NoLoader)
    ELSE LoadProject(Staged(S, l, filename, Mkdtemp(S, builddir)),
                     l, filename, Mkdtemp(S, builddir))

\* Loader._get_loader from "Stage sources" on, unless a source raised
StageAndLoad(S, l, filename) ==
    IF S.err # NoError
    THEN Ret(S, NoLoader)
    ELSE LoadProject(Staged(S, l, filename, Mkdtemp(S, builddir)),
                     l, filename, Mkdtemp(S, builddir))

\* a _get_loader that does not look at the kind of the element
CheckJunctionAnyKind(C, l, filename) ==
    IF C.S.err # NoError
    THEN Ret(C.S, NoLoader)
    ELSE StageAndLoad(CheckSources(C.S, l, filename, 1), l, filename)

\* Loader._get_loader: the junction's MetaElement C is at hand
CheckJunction(C, l, filename) ==
    IF C.S.err # NoError
    THEN Ret(C.S, NoLoader)
    ELSE IF C.S.metas[C.ret].kind # "junction"
    THEN Ret(Raise(C.S, INVALID_DATA), NoLoader)
    ELSE StageAndLoad(CheckSources(C.S, l, filename, 1), l, filename)

\* a _get_loader that lets a MissingFile escape at every level
LoadedJunctionFatal(S, l, filename, level) ==
    IF S.err # NoError
    THEN Ret(S, NoLoader)
    ELSE CheckJunction(CollectElement(S, l, filename), l, filename)

\* Loader._get_loader: the except clause on self._load_file(filename), which
\* left S, and what follows it
LoadedJunction(S, l, filename, level) ==
    IF S.err = MISSING_FILE
    THEN IF level = 0
         THEN Ret(S, NoLoader)
         ELSE Ret(SetLoader([S EXCEPT !.err = NoError], l, filename, NoLoader),
                  NoLoader)
    ELSE IF S.err # NoError
    THEN Ret(S, NoLoader)
    ELSE CheckJunction(CollectElement(S, l, filename), l, filename)

\* Loader._get_loader after the cache and the parent were asked
GetLoaderLocal(S, l, filename, level) ==
    LoadedJunction(LoadFile(S, l, filename), l, filename, level)

\* a _get_loader that asks the parent and then makes a Loader of its own
FromParentIgnored(P, l, filename, level) ==
    IF P.S.err # NoError
    THEN P
    ELSE GetLoaderLocal(P.S, l, filename, level)

\* Loader._get_loader: the parent returned P
FromParent(P, l, filename, level) ==
    IF P.S.err # NoError
    THEN P
    ELSE IF P.ret # NoLoader
    THEN Ret(SetLoader(P.S, l, filename, P.ret), P.ret)
    ELSE GetLoaderLocal(P.S, l, filename, level)

\* a _get_loader that does not ask the parent Loader
GetLoaderOwnFirst(S, l, filename, level) ==
    IF filename \in DOMAIN S.loaders[l].loaders
    THEN IF S.loaders[l].loaders[filename] = NoLoader
         THEN Ret(Raise(Logged(S, <<"conflict", l, filename>>), CONFLICTING_JUNCTION),
                  NoLoader)
         ELSE Ret(S, S.loaders[l].loaders[filename])
    ELSE GetLoaderLocal(S, l, filename, level)

\* a _get_loader that answers a cached None like a Loader, without raising
GetLoaderNoConflict(S, l, filename, level) ==
    IF filename \in DOMAIN S.loaders[l].loaders
    THEN Ret(S, S.loaders[l].loaders[filename])
    ELSE FromParent(IF S.loaders[l].parent # NoLoader
                    THEN GetLoader(S, S.loaders[l].parent, filename, level + 1)
                    ELSE Ret(S, NoLoader),
                    l, filename, level)

\* a _get_loader that looks again for a junction it recorded as absent
GetLoaderRetrying(S, l, filename, level) ==
    IF filename \in DOMAIN S.loaders[l].loaders /\ S.loaders[l].loaders[filename] # NoLoader
    THEN Ret(S, S.loaders[l].loaders[filename])
    ELSE FromParent(IF S.loaders[l].parent # NoLoader
                    THEN GetLoader(S, S.loaders[l].parent, filename, level + 1)
                    ELSE Ret(S, NoLoader),
                    l, filename, level)

\* Loader._get_loader
GetLoader(S, l, filename, level) ==
    IF filename \in DOMAIN S.loaders[l].loaders
    THEN IF S.loaders[l].loaders[filename] = NoLoader
         THEN Ret(Raise(Logged(S, <<"conflict", l, filename>>), CONFLICTING_JUNCTION),
                  NoLoader)
         ELSE Ret(S, S.loaders[l].loaders[filename])
    ELSE FromParent(IF S.loaders[l].parent # NoLoader
                    THEN GetLoader(S, S.loaders[l].parent, filename, level + 1)
                    ELSE Ret(S, NoLoader),
                    l, filename, level)

\* ------------------------------------------------ circular dependencies
\* LoadElement.full_name: the junction-qualified name
FullName(S, l, name) == <<S.loaders[l].junction, name>>

\* the check_elements and validated dicts of one check, and its outcome; the
\* elements in the order they entered check_elements, and whether the two
\* dicts ever had a key in common
Check(check_elements, validated, e, culprit, walked) ==
    [check_elements |-> check_elements, validated |-> validated, err |-> e,
     culprit |-> culprit, walked |-> walked,
     overlap |-> check_elements \cap validated # {}]

RECURSIVE CheckCircularDeps(_, _, _, _)
RECURSIVE CheckCircularLoop(_, _, _, _, _)

\* Loader._check_circular_deps: the element enters check_elements
Entered(T, full_name) ==
    [T EXCEPT !.check_elements = @ \cup {full_name}, !.walked = Append(@, full_name),
              !.overlap = @ \/ full_name \in T.validated]

\* Loader._check_circular_deps: unless a dependency raised, the element
\* leaves check_elements and is validated
Validated(T, full_name) ==
    IF T.err # NoError
    THEN T
    ELSE [T EXCEPT !.check_elements = @ \ {full_name},
                   !.validated = @ \cup {full_name},
                   !.overlap = @ \/ (T.check_elements \ {full_name})
                                        \cap (T.validated \cup {full_name}) # {}]

\* a _check_circular_deps that leaves the element in check_elements and never
\* marks it validated
CheckCircularDepsNoPop(S, l, element_name, T) ==
    IF FullName(S, l, element_name) \in T.validated
    THEN T
    ELSE IF FullName(S, l, element_name) \in T.check_elements
    THEN [T EXCEPT !.err = CIRCULAR_DEPENDENCY, !.culprit = element_name]
    ELSE CheckCircularLoop(S, l, element_name,
                           Entered(T, FullName(S, l, element_name)), 1)

\* a _check_circular_deps that does not skip the validated branches
CheckCircularDepsRewalking(S, l, element_name, T) ==
    IF FullName(S, l, element_name) \in T.check_elements
    THEN [T EXCEPT !.err = CIRCULAR_DEPENDENCY, !.culprit = element_name]
    ELSE Validated(CheckCircularLoop(S, l, element_name,
                                     Entered(T, FullName(S, l, element_name)), 1),
                   FullName(S, l, element_name))

\* Loader._check_circular_deps
CheckCircularDeps(S, l, element_name, T) ==
    IF FullName(S, l, element_name) \in T.validated
    THEN T
    ELSE IF FullName(S, l, element_name) \in T.check_elements
    THEN [T EXCEPT !.err = CIRCULAR_DEPENDENCY, !.culprit = element_name]
    ELSE Validated(CheckCircularLoop(S, l, element_name,
                                     Entered(T, FullName(S, l, element_name)), 1),
                   FullName(S, l, element_name))

\* the loop of Loader._check_circular_deps over element.deps, from the i-th on
CheckCircularLoop(S, l, element_name, T, i) ==
    IF i > Len(S.loaders[l].elements[element_name]) \/ T.err # NoError
    THEN T
    ELSE CheckCircularLoop(S, l, element_name,
             CheckCircularDeps(S, GetLoaderForDep(S, l, S.loaders[l].elements[element_name][i]),
                               S.loaders[l].elements[element_name][i].name, T),
             i + 1)

\* ------------------------------------------------------ dependency sort
RECURSIVE DepCache(_, _, _)

\* LoadElement._ensure_depends_cache: the full names of everything the element
\* depends on, directly or not
DepCache(S, l, name) ==
    LET deps == S.loaders[l].elements[name]
    IN  UNION {{FullName(S, GetLoaderForDep(S, l, deps[i]), deps[i].name)}
                 \cup DepCache(S, GetLoaderForDep(S, l, deps[i]), deps[i].name)
               : i \in DOMAIN deps}

\* LoadElement.depends, of the elements that dep_a and dep_b of l's element name
Depends(S, l, dep_a, dep_b) ==
    FullName(S, GetLoaderForDep(S, l, dep_b), dep_b.name)
        \in DepCache(S, GetLoaderForDep(S, l, dep_a), dep_a.name)

\* dependency_cmp: the rules after the one on inter element dependency
CmpTieBreak(dep_a, dep_b) ==
    IF dep_a.dep_type # dep_b.dep_type /\ dep_a.dep_type = "runtime" THEN 1
    ELSE IF dep_a.dep_type # dep_b.dep_type /\ dep_b.dep_type = "runtime" THEN -1
    ELSE IF dep_a.name > dep_b.name THEN 1
    ELSE IF dep_a.name < dep_b.name THEN -1
    ELSE IF dep_a.junction # NoJunction /\ dep_b.junction # NoJunction
         THEN IF dep_a.junction > dep_b.junction THEN 1
              ELSE IF dep_a.junction < dep_b.junction THEN -1
              ELSE 0
    ELSE IF dep_a.junction # NoJunction THEN -1
    ELSE IF dep_b.junction # NoJunction THEN 1
    ELSE 0

\* dependency_cmp, in the Loader l whose element is being sorted
DependencyCmp(S, l, dep_a, dep_b) ==
    IF Depends(S, l, dep_a, dep_b) THEN 1
    ELSE IF Depends(S, l, dep_b, dep_a) THEN -1
    ELSE CmpTieBreak(dep_a, dep_b)

\* the < of cmp_to_key(dependency_cmp)
IsLt(S, l, dep_a, dep_b) == DependencyCmp(S, l, dep_a, dep_b) < 0

Reverse(s) == [i \in 1..Len(s) |-> s[Len(s) + 1 - i]]

RECURSIVE CountRun(_, _, _, _, _)
\* list.sort's count_run: the length of the run that starts the list, which
\* is descending when a[2] < a[1]
CountRun(S, l, a, descending, i) ==
    IF i <= Len(a) /\ IsLt(S, l, a[i], a[i - 1]) = descending
    THEN CountRun(S, l, a, descending, i + 1)
    ELSE i - 1

RECURSIVE BinarySearch(_, _, _, _, _, _)
\* list.sort's binarysort: where the pivot goes among the first `hi` entries
BinarySearch(S, l, a, pivot, lo, hi) ==
    IF lo < hi
    THEN IF IsLt(S, l, pivot, a[lo + ((hi - lo) \div 2) + 1])
         THEN BinarySearch(S, l, a, pivot, lo, lo + ((hi - lo) \div 2))
         ELSE BinarySearch(S, l, a, pivot, lo + ((hi - lo) \div 2) + 1, hi)
    ELSE lo

\* list.sort's binarysort: a[start + 1] moves to position at + 1
Insert(a, start, at) ==
    SubSeq(a, 1, at) \o <<a[start + 1]>> \o SubSeq(a, at + 1, start)
        \o SubSeq(a, start + 2, Len(a))

RECURSIVE BinarySort(_, _, _, _)
\* list.sort's binarysort: a[1..start] is sorted, insert the rest one by one
BinarySort(S, l, a, start) ==
    IF start >= Len(a)
    THEN a
    ELSE BinarySort(S, l,
                    Insert(a, start, BinarySearch(S, l, a, a[start + 1], 0, start)),
                    start + 1)

\* list.sort: the first run, of n entries, reversed if it descends
FirstRun(a, descending, n) ==
    IF descending
    THEN Reverse(SubSeq(a, 1, n)) \o SubSeq(a, n + 1, Len(a))
    ELSE a

\* list.sort once the first run is counted
SortRun(S, l, a, descending, n) == BinarySort(S, l, FirstRun(a, descending, n), n)

\* list.sort once the direction of the first run is known
SortFrom(S, l, a, descending) ==
    SortRun(S, l, a, descending, CountRun(S, l, a, descending, 3))

\* element.deps.sort(key=cmp_to_key(dependency_cmp)): a list this short is one
\* run, extended to the whole list by binary insertion
ListSort(S, l, a) ==
    IF Len(a) < 2 THEN a ELSE SortFrom(S, l, a, IsLt(S, l, a[2], a[1]))

RECURSIVE SortDependencies(_, _, _, _)
RECURSIVE SortDependenciesLoop(_, _, _, _, _)

\* Loader._sort_dependencies: element.deps.sort and the entry in visited, R
\* what the loop over the dependencies left
SortElement(R, l, element_name, full_name) ==
    Ret([R.S EXCEPT !.loaders[l].elements[element_name] = ListSort(R.S, l, @)],
        R.ret \cup {full_name})

\* Loader._sort_dependencies; returns the state and the visited dict
SortDependencies(S, l, element_name, visited) ==
    IF FullName(S, l, element_name) \in visited
    THEN Ret(S, visited)
    ELSE SortElement(SortDependenciesLoop(S, l, element_name, visited, 1),
                     l, element_name, FullName(S, l, element_name))

\* Loader._sort_dependencies: the next turn of the loop
SortDependenciesNext(R, l, element_name, i) ==
    SortDependenciesLoop(R.S, l, element_name, R.ret, i + 1)

\* the loop of Loader._sort_dependencies over element.deps, from the i-th on
SortDependenciesLoop(S, l, element_name, visited, i) ==
    IF i > Len(S.loaders[l].elements[element_name])
    THEN Ret(S, visited)
    ELSE SortDependenciesNext(
             SortDependencies(S, GetLoaderForDep(S, l, S.loaders[l].elements[element_name][i]),
                              S.loaders[l].elements[element_name][i].name, visited),
             l, element_name, i)

\* ------------------------------------------------------------------ load
RECURSIVE LoadTargets(_, _, _)
\* Loader.load, first pass
LoadTargets(S, l, i) ==
    IF i > Len(targets) \/ S.err # NoError
    THEN S
    ELSE LoadTargets(LoadFile(S, l, targets[i]), l, i + 1)

\* the dummy element that depends on all top-level targets
DummyTarget == [i \in 1..Len(targets) |-> Dependency(targets[i], "all", NoJunction)]

RECURSIVE SortTargets(_, _, _)
\* Loader.load, the sort of each target with a visited dict of its own
SortTargets(S, l, i) ==
    IF i > Len(targets)
    THEN S
    ELSE SortTargets(SortDependencies(S, l, targets[i], {}).S, l, i + 1)

RECURSIVE CollectTargets(_, _, _, _)

\* Loader.load, the list of collected targets after target i gave C
CollectTargetsNext(C, l, i, acc) == CollectTargets(C.S, l, i + 1, Append(acc, C.ret))

\* Loader.load, the list of collected targets
CollectTargets(S, l, i, acc) ==
    IF i > Len(targets) \/ S.err # NoError
    THEN Ret(S, acc)
    ELSE CollectTargetsNext(CollectElement(S, l, targets[i]), l, i, acc)

NoCheck == Check({}, {}, NoError, DummyName, <<>>)

\* what load() gives: the state, the MetaElements of the targets, the
\* circular dependency check that was made and the pass that ended the load
Outcome(S, ret, check, pass) == [S |-> S, ret |-> ret, check |-> check, pass |-> pass]

\* Loader.load: the end of the collection pass
LoadCollected(C, T) ==
    IF C.S.err # NoError
    THEN Outcome(C.S, <<>>, T, "collect")
    ELSE Outcome(C.S, C.ret, T, "done")

\* Loader.load from the sort pass on, T the circular dependency check
LoadChecked(S, l, T) ==
    IF T.err # NoError
    THEN Outcome(Raise(S, T.err), <<>>, T, "check")
    ELSE LoadCollected(CollectTargets(SortTargets(S, l, 1), l, 1, <<>>), T)

\* Loader.load from the dummy element on, S what the first pass left
LoadDummy(S, l) ==
    IF S.err # NoError
    THEN Outcome(S, <<>>, NoCheck, "load")
    ELSE LoadChecked(S, l, CheckCircularDeps(S, l, DummyName, NoCheck))

\* Loader.load: self._elements[''] = dummy
WithDummy(S, l) ==
    IF S.err # NoError
    THEN S
    ELSE [S EXCEPT !.loaders[l].elements = Put(@, DummyName, DummyTarget)]

\* Loader.load
Load(S, l) == LoadDummy(WithDummy(LoadTargets(S, l, 1), l), l)

\* ------------------------------------------------------------ the worlds
\* The element files a behaviour starts from.  Element 1 is the target; its
\* dependency list is declared in any order, the other elements declare
\* theirs in the order of the names.
Target == 1
Inner == Elems \ {Target}
RootLoader == 1

RECURSIVE SeqOf(_)
SeqOf(set) ==
    IF set = {}
    THEN <<>>
    ELSE LET m == CHOOSE x \in set : \A y \in set : x <= y
         IN  <<m>> \o SeqOf(set \ {m})

\* the lists of at most MaxDeps dependencies, no two alike in name and junction
DepLists(cands) ==
    {s \in UNION {[1..n -> cands] : n \in 0..MaxDeps} :
        \A i, j \in DOMAIN s :
            i # j => <<s[i].name, s[i].junction>> # <<s[j].name, s[j].junction>>}

EdgeSets(cands) == {E \in SUBSET cands : Cardinality(E) <= MaxEdges}

Edges(E, i) == [k \in DOMAIN SeqOf({e[2] : e \in {x \in E : x[1] = i}}) |->
                   Dependency(SeqOf({e[2] : e \in {x \in E : x[1] = i}})[k],
                              "all", NoJunction)]

NoFiles == [n \in Names |-> NoFile]

\* one project: the target's list, the edges of the others, and what is to be
\* found in place of some element files
LocalFiles(xdeps, E, status) ==
    [p \in Projects |->
        IF p # TopProject THEN NoFiles
        ELSE [n \in Names |->
                 IF n \in JNames THEN NoFile
                 ELSE IF n \in DOMAIN status /\ status[n] = "nofile" THEN NoFile
                 ELSE IF n \in DOMAIN status /\ status[n] = "junction"
                      THEN Junction(<<"CACHED">>, NoProjectConf)
                 ELSE IF n = Target THEN Element(xdeps)
                 ELSE Element(Edges(E, n))]]

LocalEdgeCands == {<<i, j>> : i \in Inner, j \in Elems} \ {<<i, i>> : i \in Elems}
LocalDepCands(types) == {Dependency(n, t, NoJunction) : n \in Inner, t \in types}

\* every kind of edge, every file in place
TypedWorlds ==
    \E xdeps \in DepLists(LocalDepCands(DepTypes)), E \in EdgeSets(LocalEdgeCands) :
        /\ files = LocalFiles(xdeps, E, EmptyMap)
        /\ targets = <<Target>>
        /\ fetch_subprojects = FALSE

Faulty == {n \in Inner : n >= NumElems - 1}

\* some files missing, some of kind junction; one target or two
FaultyWorlds ==
    \E xdeps \in DepLists(LocalDepCands({"all"})), E \in EdgeSets(LocalEdgeCands),
       status \in [Faulty -> {"stack", "nofile", "junction"}],
       t \in {<<Target>>, <<Target, NumElems>>} :
        /\ files = LocalFiles(xdeps, E, status)
        /\ targets = t
        /\ fetch_subprojects = FALSE

\* The junction file JunctionTo(q) links to project q.  In the worlds with
\* junctions the top-level project defines every one of them, and every
\* subproject defines the ones to the other subprojects.
JunctionTo(q) == NumElems + q
SubElems == {n \in Elems : n <= 2}

\* <<p, i, q, j>>: element i of subproject p depends on element j of q
SubEdgeCands ==
    {<<p, i, q, j>> : p \in SubProjects, i \in SubElems,
                      q \in SubProjects, j \in SubElems}
        \ {<<p, i, p, i>> : p \in SubProjects, i \in SubElems}

SubEdges(E, p, i) ==
    LET own == SeqOf({e[4] : e \in {x \in E : x[1] = p /\ x[2] = i /\ x[3] = p}})
        far == SeqOf({e[3] * (NumElems + 1) + e[4] :
                         e \in {x \in E : x[1] = p /\ x[2] = i /\ x[3] # p}})
    IN  [k \in DOMAIN own |-> Dependency(own[k], "all", NoJunction)]
        \o [k \in DOMAIN far |->
               Dependency(far[k] % (NumElems + 1), "all",
                          JunctionTo(far[k] \div (NumElems + 1)))]

JunctionFiles(xdeps, E, consistency) ==
    [p \in Projects |->
        [n \in Names |->
            IF n \in JNames
            THEN IF n - NumElems \in SubProjects \ {p}
                 THEN Junction(<<consistency>>, n - NumElems)
                 ELSE NoFile
            ELSE IF p = TopProject
            THEN IF n = Target THEN Element(xdeps)
                 ELSE IF n \in SubElems THEN Element(<<>>)
                 ELSE IF n = NumElems - 1 THEN Junction(<<"CACHED">>, NoProjectConf)
                 ELSE NoFile
            ELSE IF n \in SubElems THEN Element(SubEdges(E, p, n)) ELSE NoFile]]

\* the last element file exists in no project of these worlds, and the one
\* before it is an element of kind junction in the top-level project
JunctionDepCands ==
    ({Dependency(n, "all", j) :
        n \in SubElems, j \in {NoJunction} \cup {JunctionTo(q) : q \in SubProjects}}
        \ {Dependency(Target, "all", NoJunction)})
        \cup {Dependency(n, "all", NoJunction) : n \in {NumElems - 1, NumElems}}

\* dependencies across junctions, on elements of the same name in several
\* projects; junction sources that may need a fetch
JunctionWorlds ==
    \E xdeps \in DepLists(JunctionDepCands), E \in EdgeSets(SubEdgeCands),
       consistency \in {"CACHED", "RESOLVED"} :
        /\ files = JunctionFiles(xdeps, E, consistency)
        /\ targets = <<Target>>
        /\ fetch_subprojects = FALSE

\* the target is an element of kind junction, with or without dependencies
JunctionTargetWorlds ==
    \E xdeps \in DepLists(LocalDepCands({"all"})), E \in EdgeSets(LocalEdgeCands) :
        /\ files = [LocalFiles(xdeps, E, EmptyMap) EXCEPT
                       ![TopProject][Target] = File("junction", xdeps, <<"CACHED">>, 1)]
        /\ targets = <<Target>>
        /\ fetch_subprojects = FALSE

\* elements that depend on themselves: the target, or one of the others
SelfWorlds ==
    \E xdeps \in DepLists(LocalDepCands({"all"}) \cup {Dependency(Target, "all", NoJunction)}),
       E \in {F \in EdgeSets(LocalEdgeCands \cup {<<i, i>> : i \in Inner}) :
                  \E i \in Inner : <<i, i>> \in F} \cup {{}} :
        /\ files = LocalFiles(xdeps, E, EmptyMap)
        /\ targets = <<Target>>
        /\ fetch_subprojects = FALSE

LoadWorlds ==
    TypedWorlds \/ FaultyWorlds \/ JunctionWorlds \/ JunctionTargetWorlds \/ SelfWorlds

\* the build directory of the default configuration
BuildDir == <<Sep, "build">>

\* a call of the program: the method, its Loader and argument, what it
\* returned, and the Loaders as they were before it
Call(op, l, name, ret, check, pass) ==
    [op |-> op, loader |-> l, name |-> name, ret |-> ret, check |-> check,
     pass |-> pass, before |-> loaders]

\* Loader(context, project, targets)
InitLoader ==
    /\ loaders = <<NewLoader(TopProject, NoLoader, NoTempdir, NoJunction)>>
    /\ metas = <<>>
    /\ dirs = {}
    /\ log = <<>>
    /\ err = NoError
    /\ last = Call("init", RootLoader, DummyName, <<>>, NoCheck, "init")

InitProgram ==
    /\ element = Unused
    /\ refs = Unused
    /\ context = Unused
    /\ share = Unused
    /\ InitLoader

\* a Loader of an empty project that is given nothing to load
NoLoad ==
    /\ files = [p \in Projects |-> NoFiles]
    /\ targets = <<>>
    /\ fetch_subprojects = FALSE
    /\ builddir = BuildDir
    /\ InitLoader

Init ==
    /\ LoadWorlds
    /\ builddir = BuildDir
    /\ InitProgram

Now == State(loaders, metas, dirs, log, err)

Becomes(S) ==
    /\ loaders' = S.loaders
    /\ metas' = S.metas
    /\ dirs' = S.dirs
    /\ log' = S.log
    /\ err' = S.err

\* the caller's Loader(context, project, targets).load()
\* load() ends with the outcome R
LoadReturns(R) ==
    /\ Becomes(R.S)
    /\ last' = Call("load", RootLoader, DummyName, R.ret, R.check, R.pass)

LoadAction ==
    /\ last.op = "init"
    /\ LoadReturns(Load(Now, RootLoader))
    /\ UNCHANGED <<world, apart>>

Next == LoadAction

Spec == Init /\ [][Next]_vars

\* ------------------------------------------------ nested junctions
\* The worlds of junction resolution.  The top-level project links to every
\* subproject q by the junction JunctionTo(q), and every subproject links to
\* the other subprojects by junctions of the same names.  One more junction
\* name, ExtraJunction, may be defined by any project, valid or not.
ExtraJunction == NumElems + NumSubs + 1

SourceLists == {<<"CACHED">>, <<"RESOLVED">>, <<"INCONSISTENT">>,
                <<"RESOLVED", "INCONSISTENT">>, <<"INCONSISTENT", "RESOLVED">>,
                <<"RESOLVED", "CACHED">>}

\* a junction to any subproject, or none
LinkOptions == {NoFile} \cup {Junction(<<"CACHED">>, q) : q \in SubProjects}

\* files that are no junction, junctions without a project.conf that loads,
\* junctions whose sources are in every state of consistency
SourceOptions ==
    {Element(<<>>), File("stack", <<>>, <<"RESOLVED">>, 1),
     Junction(<<"CACHED">>, NoProjectConf), Junction(<<"CACHED">>, BadProjectConf)}
        \cup {Junction(src, 1) : src \in SourceLists}

\* the subprojects the top-level project may link to: the first k of them
TopLinks == {{q \in SubProjects : q <= k} : k \in 1..NumSubs}

\* every subproject links to every other, the top-level project to linked
NestedFiles(extra, linked) ==
    [p \in Projects |->
        [n \in Names |->
            IF n = ExtraJunction THEN extra[p]
            ELSE IF /\ n \in JNames
                    /\ n - NumElems \in SubProjects \ {p}
                    /\ (p = TopProject => n - NumElems \in linked)
                 THEN Junction(<<"CACHED">>, n - NumElems)
                 ELSE NoFile]]

\* every project may define ExtraJunction, each its own way
OverrideWorlds ==
    \E extra \in [Projects -> LinkOptions], linked \in TopLinks :
        /\ files = NestedFiles(extra, linked)
        /\ fetch_subprojects = FALSE

\* the top-level project defines ExtraJunction, perhaps wrongly
SourceWorlds ==
    \E top \in SourceOptions :
        /\ files = NestedFiles([p \in Projects |-> IF p = TopProject THEN top ELSE NoFile],
                               SubProjects)
        /\ fetch_subprojects \in BOOLEAN

InitJunction ==
    /\ OverrideWorlds \/ SourceWorlds
    /\ targets = <<>>
    /\ builddir = BuildDir
    /\ InitProgram

\* a call of Loader._get_loader(filename) on one of the Loaders of the tree;
\* an error ends the load
\* _get_loader(filename) of Loader l ends with G
GetLoaderReturns(G, l, filename) ==
    /\ Becomes(G.S)
    /\ last' = Call("get_loader", l, filename, G.ret, NoCheck, "load")

GetLoaderCall(l, filename) ==
    /\ targets = <<>>
    /\ err = NoError
    /\ last.op \in {"init", "get_loader"}
    /\ Cardinality({i \in DOMAIN log : log[i][1] = "call"}) < MaxCalls
    /\ GetLoaderReturns(GetLoader(Logged(Now, <<"call", l, filename>>), l, filename, 0),
                        l, filename)
    /\ UNCHANGED <<world, apart>>

NextJunction == \E l \in DOMAIN loaders, filename \in JNames : GetLoaderCall(l, filename)

SpecJunction == InitJunction /\ [][NextJunction]_vars

\* ---------------------------------------------------------- cleanup
RecursionError == "RecursionError"
Returned == "None"

\* shutil.rmtree(path)
Rmtree(S, l, path) ==
    [Logged(S, <<"rmtree", l, path>>)
        EXCEPT !.dirs = {d \in @ : d # path /\ ~StartsWith(d, Append(path, Sep))}]

\* a cleanup that removes the temporary directory wherever it is
CleanupOwnUnguarded(S, l) ==
    IF S.loaders[l].parent = NoLoader
    THEN S
    ELSE IF S.loaders[l].tempdir \in S.dirs
    THEN Rmtree(S, l, S.loaders[l].tempdir)
    ELSE S

\* Loader.cleanup after the loop over self._loaders: the top-level Loader
\* returns, another removes its temporary directory if it is in builddir
CleanupOwn(S, l) ==
    IF S.loaders[l].parent = NoLoader
    THEN S
    ELSE IF /\ StartsWith(S.loaders[l].tempdir, Append(builddir, Sep))
            /\ S.loaders[l].tempdir \in S.dirs
    THEN Rmtree(S, l, S.loaders[l].tempdir)
    ELSE S

RECURSIVE Cleanup(_, _, _)
RECURSIVE CleanupLoop(_, _, _, _)

\* a cleanup that removes its own directory as soon as one Loader of its
\* junction map was cleaned up
CleanupNextEager(C, l, i, stack) ==
    IF C.ret # Returned
    THEN C
    ELSE CleanupLoop(CleanupOwn(C.S, l), l, i + 1, stack)

\* Loader.cleanup: loader.cleanup() returned or raised C; the next turn
CleanupNext(C, l, i, stack) ==
    IF C.ret # Returned
    THEN C
    ELSE CleanupLoop(C.S, l, i + 1, stack)

\* Loader.cleanup: the loop over self._loaders.values(), from the i-th on,
\* and what follows it
CleanupLoop(S, l, i, stack) ==
    IF i > Len(S.loaders[l].order)
    THEN Ret(CleanupOwn(S, l), Returned)
    ELSE IF S.loaders[l].loaders[S.loaders[l].order[i]] = NoLoader
    THEN CleanupLoop(S, l, i + 1, stack)
    ELSE CleanupNext(Cleanup(S, S.loaders[l].loaders[S.loaders[l].order[i]],
                             stack \cup {l}),
                     l, i, stack)

\* Loader.cleanup.  stack holds the Loaders whose cleanup() is running: a
\* Loader reached again from its own junction maps recurses without end,
\* until the interpreter raises RecursionError, with nothing removed since.
Cleanup(S, l, stack) ==
    IF S.loaders[l].parent # NoLoader /\ S.loaders[l].tempdir = NoTempdir
    THEN Ret(S, Returned)
    ELSE IF l \in stack
    THEN Ret(Logged(S, <<"cleanup", l>>), RecursionError)
    ELSE CleanupLoop(Logged(S, <<"cleanup", l>>), l, 1, stack)

\* the build directory of another configuration, and the same build
\* directory written with a separator at its end
BuildDirs == {BuildDir, Append(BuildDir, Sep), <<Sep, "other">>}

\* Context.load(config): builddir is the path the configuration gives, with
\* ~ and environment variables expanded and nothing else done to it.  It is
\* followed here once, when subprojects were staged already.
ContextLoad(path) ==
    /\ last.op # "cleanup"
    /\ dirs # {}
    /\ \A i \in DOMAIN log : log[i][1] # "config"
    /\ path # builddir
    /\ builddir' = path
    /\ log' = Append(log, <<"config", path>>)
    /\ UNCHANGED <<files, targets, fetch_subprojects, loaders, metas, dirs, err, last, apart>>

\* cleanup() of Loader l ends with R; err keeps what the load raised
CleanupReturns(R) ==
    /\ loaders' = R.S.loaders
    /\ dirs' = R.S.dirs
    /\ log' = R.S.log
    /\ last' = Call("cleanup", RootLoader, DummyName, R.ret, NoCheck, last.pass)

\* the caller's loader.cleanup(), once the load returned or raised
CleanupAction ==
    /\ last.op \in {"load", "get_loader"}
    /\ CleanupReturns(Cleanup(Now, RootLoader, {}))
    /\ UNCHANGED <<world, metas, err, apart>>

\* what the target may depend on in the worlds below: the first element of a
\* project behind a junction, and an element file that does not exist
CleanupDepCands ==
    {Dependency(Target, "all", j) : j \in JNames}
        \cup {Dependency(NumElems, "all", NoJunction)}

\* two subprojects that each have an element depending on one of the other
BothWays(F) ==
    \E x \in F, y \in F : x[1] # x[3] /\ y[1] = x[3] /\ y[3] = x[1]

\* a target with dependencies across junctions; the sources of ExtraJunction
\* may hold no project.conf
CleanupWorlds ==
    \E xdeps \in DepLists(CleanupDepCands),
       E \in {F \in EdgeSets(SubEdgeCands) : Cardinality(F) <= 1 \/ BothWays(F)},
       extra \in {Junction(<<"CACHED">>, NoProjectConf), Junction(<<"CACHED">>, 1)} :
        /\ files = [JunctionFiles(xdeps, E, "CACHED")
                       EXCEPT ![TopProject][ExtraJunction] = extra]
        /\ targets = <<Target>>
        /\ fetch_subprojects = FALSE

InitCleanup ==
    /\ \/ (OverrideWorlds \/ SourceWorlds) /\ targets = <<>>
       \/ CleanupWorlds
    /\ builddir = BuildDir
    /\ InitProgram

NextCleanup ==
    \/ LoadAction
    \/ \E l \in DOMAIN loaders, filename \in JNames : GetLoaderCall(l, filename)
    \/ \E path \in BuildDirs : ContextLoad(path)
    \/ CleanupAction

SpecCleanup == InitCleanup /\ [][NextCleanup]_vars

\* ------------------------------------------------- the loaded graph
\* The dependency graph as the Loaders hold it, read off the state and not
\* through the passes: a node is an element of a Loader, an edge a dependency
\* whose junction qualifier, if any, is resolved by the Loader's junction map.
Nodes == UNION {{<<l, n>> : n \in DOMAIN loaders[l].elements \ {DummyName}} :
                  l \in DOMAIN loaders}

DepsOf(x) == loaders[x[1]].elements[x[2]]

Resolved(l, dep) ==
    IF dep.junction = NoJunction THEN l
    ELSE IF dep.junction \in DOMAIN loaders[l].loaders
         THEN loaders[l].loaders[dep.junction]
         ELSE NoLoader

NodeOf(l, dep) == <<Resolved(l, dep), dep.name>>

Succ(x) == {NodeOf(x[1], DepsOf(x)[i]) : i \in DOMAIN DepsOf(x)} \cap Nodes

RECURSIVE Closure(_)
Closure(X) ==
    LET Y == X \cup UNION {Succ(x) : x \in X}
    IN  IF Y = X THEN X ELSE Closure(Y)

\* what x depends on, directly or transitively
Below(x) == Closure(Succ(x))

TargetNodes == {<<RootLoader, targets[i]>> : i \in DOMAIN targets} \cap Nodes
Reachable == Closure(TargetNodes)
HasCycle == \E x \in Reachable : x \in Below(x)

Loaded == last.op = "load"
\* the passes after the circular dependency check were entered
Sorted == Loaded /\ last.pass \in {"collect", "done"}

\* ------------------------------------------------------------- claims
\* C1 (as stated): load() fails with CircularDependency if and only if the
\* dependency graph reachable from the targets contains a cycle.
C1_CircularIffCycle ==
    Loaded => ((err = CIRCULAR_DEPENDENCY) <=> HasCycle)

\* C1 (amended): load() fails with CircularDependency if and only if its first
\* pass loaded every file without error and the dependency graph reachable
\* from the targets, across Loaders, contains a cycle; an acyclic graph with
\* shared dependencies is never reported as circular.
C1_CircularIffCycleOnceLoaded ==
    Loaded => ((err = CIRCULAR_DEPENDENCY) <=> (last.pass # "load" /\ HasCycle))

\* a cycle that runs through elements of two subproject Loaders is reported
C1_Witness ==
    /\ Loaded
    /\ err = CIRCULAR_DEPENDENCY
    /\ \E x, y \in Reachable :
          /\ x \in Below(x) /\ y \in Below(x) /\ x \in Below(y)
          /\ x[1] # y[1] /\ x[1] # RootLoader /\ y[1] # RootLoader

\* C2: after a successful load() every element reachable from the targets is
\* one MetaElement, and every entry of a dependency list is the one
\* MetaElement of the element depended on, whatever the path that reached it.
C2_OneMetaElementPerElement ==
    (Loaded /\ err = NoError) =>
        /\ \A i, j \in DOMAIN metas :
              (metas[i].loader = metas[j].loader /\ metas[i].name = metas[j].name)
                  => i = j
        /\ \A x \in Reachable : x[2] \in DOMAIN loaders[x[1]].meta_elements
        /\ \A x \in Reachable : \A i \in DOMAIN DepsOf(x) :
              LET m == metas[loaders[x[1]].meta_elements[x[2]]]
                  d == DepsOf(x)[i]
                  y == NodeOf(x[1], d)
                  entries == Range(m.build_dependencies) \cup Range(m.dependencies)
              IN  /\ loaders[y[1]].meta_elements[y[2]] \in entries
                  /\ \A e \in entries :
                        (metas[e].loader = y[1] /\ metas[e].name = y[2])
                            => e = loaders[y[1]].meta_elements[y[2]]

\* a diamond: two dependencies of one element share a dependency
C2_Witness ==
    /\ Loaded /\ err = NoError
    /\ \E a, b, c, d \in DOMAIN metas :
          /\ b # c
          /\ {b, c} \subseteq Range(metas[a].dependencies)
          /\ d \in Range(metas[b].dependencies) \cap Range(metas[c].dependencies)

\* where dependency i of x stands in x's list: the position itself
Independent(x, i, j) ==
    /\ NodeOf(x[1], DepsOf(x)[i]) \notin Below(NodeOf(x[1], DepsOf(x)[j]))
    /\ NodeOf(x[1], DepsOf(x)[j]) \notin Below(NodeOf(x[1], DepsOf(x)[i]))

\* C3: after the sort, a direct dependency Z that another direct dependency Y
\* of the same element depends on, directly or transitively, precedes Y.
C3_DependenciesPrecede ==
    Sorted =>
        \A x \in Reachable : \A y, z \in DOMAIN DepsOf(x) :
            NodeOf(x[1], DepsOf(x)[z]) \in Below(NodeOf(x[1], DepsOf(x)[y])) => z < y

\* C4: the comparison that sorts an element's dependencies is a total order
\* over them: antisymmetric and transitive.
C4_ComparisonIsTotalOrder ==
    Sorted =>
        \A x \in Reachable : \A a, b, c \in Range(DepsOf(x)) :
            /\ DependencyCmp(Now, x[1], a, b) = 0 - DependencyCmp(Now, x[1], b, a)
            /\ (IsLt(Now, x[1], a, b) /\ IsLt(Now, x[1], b, c)) => IsLt(Now, x[1], a, c)

\* C5: of two direct dependencies that do not depend on one another, one
\* runtime-only and the other not, the runtime-only one sorts after the other.
C5_RuntimeOnlyLast ==
    Sorted =>
        \A x \in Reachable : \A i, j \in DOMAIN DepsOf(x) :
            (/\ Independent(x, i, j)
             /\ DepsOf(x)[i].dep_type = "runtime"
             /\ DepsOf(x)[j].dep_type # "runtime") => j < i

\* C6: of two direct dependencies that tie on inter-dependency, kind and name,
\* the same-project one sorts before a junction-qualified one, and two
\* junction-qualified ones sort by junction name.
C6_LocalBeforeJunction ==
    Sorted =>
        \A x \in Reachable : \A i, j \in DOMAIN DepsOf(x) :
            (/\ Independent(x, i, j)
             /\ DepsOf(x)[i].dep_type = DepsOf(x)[j].dep_type
             /\ DepsOf(x)[i].name = DepsOf(x)[j].name
             /\ \/ DepsOf(x)[i].junction = NoJunction /\ DepsOf(x)[j].junction # NoJunction
                \/ /\ DepsOf(x)[i].junction # NoJunction
                   /\ DepsOf(x)[i].junction < DepsOf(x)[j].junction) => i < j

\* The element files of the top-level project that the targets refer to,
\* directly or through same-project dependencies, read off the files.
RECURSIVE Referenced(_)
Referenced(X) ==
    LET Y == X \cup {d.name : d \in {e \in UNION {Range(files[TopProject][n].deps) : n \in X} :
                                      e.junction = NoJunction}}
    IN  IF Y = X THEN X ELSE Referenced(Y)

ReferencedFiles == Referenced(Range(targets))
MissingReferenced == \E n \in ReferencedFiles : files[TopProject][n].kind = "nofile"
JunctionReferenced ==
    \E n \in ReferencedFiles : \E d \in Range(files[TopProject][n].deps) :
        d.junction = NoJunction /\ files[TopProject][d.name].kind = "junction"
JunctionCrossed ==
    \E n \in ReferencedFiles : \E d \in Range(files[TopProject][n].deps) :
        d.junction # NoJunction

\* C10 (as stated): load() fails with MissingFile whenever a target, or a
\* same-project element file transitively referenced from one, does not exist.
C10_MissingFileFails ==
    (Loaded /\ MissingReferenced) => err = MISSING_FILE

\* C10 (amended): when a target, or a same-project element file transitively
\* referenced from one, does not exist, load() fails in its first pass; it
\* fails with MissingFile unless a dependency met earlier fails the load
\* first: an element of kind junction named as a dependency (InvalidData), or
\* a junction-qualified dependency whose subproject needs a fetch
\* (SubprojectFetchNeeded).
C10_MissingFileFailsFirstPass ==
    (Loaded /\ MissingReferenced) =>
        /\ last.pass = "load"
        /\ \/ err = MISSING_FILE
           \/ err = INVALID_DATA /\ JunctionReferenced
           \/ err = SUBPROJECT_FETCH_NEEDED /\ JunctionCrossed

\* a dependency of a dependency is missing, and nothing else is wrong
C10_Witness ==
    /\ Loaded /\ err = MISSING_FILE
    /\ ~JunctionReferenced
    /\ files[TopProject][Target].kind # "nofile"
    /\ \A d \in Range(files[TopProject][Target].deps) :
          files[TopProject][d.name].kind # "nofile"

\* --------------------------------------------- claims on junctions
Parent(l) == loaders[l].parent
ProjectOf(l) == loaders[l].project

RECURSIVE Ancestors(_)
Ancestors(l) == IF Parent(l) = NoLoader THEN {} ELSE {Parent(l)} \cup Ancestors(Parent(l))

\* l's junction map holds a Loader for n
Holds(l, n) == n \in DOMAIN loaders[l].loaders /\ loaders[l].loaders[n] # NoLoader
\* l's junction map holds the Loader that l made of its own junction n
HoldsOwn(l, n) ==
    /\ Holds(l, n)
    /\ loaders[loaders[l].loaders[n]].parent = l
    /\ loaders[loaders[l].loaders[n]].junction = n
\* l's junction map holds the None that marks n as absent
HoldsNone(l, n) == n \in DOMAIN loaders[l].loaders /\ loaders[l].loaders[n] = NoLoader

DefinesJunction(l, n) == files[ProjectOf(l)][n].kind = "junction"
DefinesNoFile(l, n) == files[ProjectOf(l)][n].kind = "nofile"

\* the sources of l's own junction n were fetched or staged, or a Loader made
Materialized(l, n) ==
    \/ \E e \in Range(log) : e[1] = "stage" /\ e[2] = l /\ e[3] = n
    \/ \E e \in Range(log) : e[1] = "fetch" /\ e[2] = l /\ e[4] = n
    \/ \E c \in DOMAIN loaders : loaders[c].parent = l /\ loaders[c].junction = n

LastGetLoader(l, n) == last.op = "get_loader" /\ last.loader = l /\ last.name = n

\* C7: when the parent of a subproject Loader resolves junction J and the
\* subproject defines J too, resolving J from the subproject returns the
\* parent's Loader for J without error, and the subproject's own J is never
\* fetched, staged or made a Loader.
C7_ParentJunctionTakesPrecedence ==
    \A s \in DOMAIN loaders : \A n \in JNames :
        (Parent(s) # NoLoader /\ Holds(Parent(s), n) /\ DefinesJunction(s, n)) =>
            /\ ~Materialized(s, n)
            /\ n \in DOMAIN loaders[s].loaders
                  => loaders[s].loaders[n] = loaders[Parent(s)].loaders[n]
            /\ LastGetLoader(s, n)
                  => err = NoError /\ last.ret = loaders[Parent(s)].loaders[n]

\* the parent made its Loader of its own J, which links to another project
\* than the subproject's J, and the subproject asked for J
C7_Witness ==
    \E s \in DOMAIN loaders : \E n \in JNames :
        /\ LastGetLoader(s, n)
        /\ n \notin DOMAIN last.before[s].loaders
        /\ Parent(s) # NoLoader /\ HoldsOwn(Parent(s), n) /\ DefinesJunction(s, n)
        /\ files[ProjectOf(s)][n].project # files[ProjectOf(Parent(s))][n].project
        /\ last.ret = loaders[Parent(s)].loaders[n]

\* C8: two sibling subprojects define junction J with different refs and their
\* parent defines none; once the first has resolved J, resolving J from the
\* second fails with ConflictingJunction and picks neither definition.
C8_SiblingsConflict ==
    \A s1, s2 \in DOMAIN loaders : \A n \in JNames :
        (/\ LastGetLoader(s2, n)
         /\ s1 # s2 /\ Parent(s1) # NoLoader /\ Parent(s1) = Parent(s2)
         /\ DefinesNoFile(Parent(s1), n)
         /\ HoldsOwn(s1, n) /\ DefinesJunction(s2, n)
         /\ files[ProjectOf(s1)][n].project # files[ProjectOf(s2)][n].project) =>
            /\ err = CONFLICTING_JUNCTION
            /\ last.ret = NoLoader
            /\ n \notin DOMAIN loaders[s2].loaders
            /\ ~Materialized(s2, n)

C8_Witness ==
    \E s1, s2 \in DOMAIN loaders : \E n \in JNames :
        /\ LastGetLoader(s2, n)
        /\ s1 # s2 /\ Parent(s1) # NoLoader /\ Parent(s1) = Parent(s2)
        /\ DefinesNoFile(Parent(s1), n)
        /\ HoldsOwn(s1, n) /\ DefinesJunction(s2, n)
        /\ files[ProjectOf(s1)][n].project # files[ProjectOf(s2)][n].project
        /\ err = CONFLICTING_JUNCTION

\* neither l nor an ancestor knew n before the last call, and no ancestor's
\* project has a file n
FirstLookupMissingAbove(l, n) ==
    /\ LastGetLoader(l, n)
    /\ \A a \in {l} \cup Ancestors(l) : n \notin DOMAIN last.before[a].loaders
    /\ \A a \in Ancestors(l) : DefinesNoFile(a, n)

\* C9: a MissingFile met by an ancestor the lookup was delegated to is not
\* propagated: the ancestor records the junction as absent and the subproject
\* resolves it from its own definition; a MissingFile at the Loader the lookup
\* started from is fatal.
C9_MissingFileAbsentAboveFatalAtOrigin ==
    \A s \in DOMAIN last.before : \A n \in JNames :
        FirstLookupMissingAbove(s, n) =>
            /\ \A a \in Ancestors(s) : HoldsNone(a, n)
            /\ (Parent(s) # NoLoader /\ DefinesJunction(s, n)) =>
                  /\ err = NoError
                  /\ HoldsOwn(s, n)
                  /\ last.ret = loaders[s].loaders[n]
                  /\ ProjectOf(last.ret) = files[ProjectOf(s)][n].project
            /\ DefinesNoFile(s, n) =>
                  /\ err = MISSING_FILE
                  /\ last.ret = NoLoader
                  /\ n \notin DOMAIN loaders[s].loaders

\* a lookup delegated through two ancestors, neither of which has the file
C9_Witness ==
    \E s \in DOMAIN last.before : \E n \in JNames :
        /\ FirstLookupMissingAbove(s, n)
        /\ Cardinality(Ancestors(s)) >= 2
        /\ DefinesJunction(s, n)
        /\ err = NoError /\ HoldsOwn(s, n)

\* ------------------------------------------------- claims on _load_file
ParsesOf(l, f) == {i \in DOMAIN log : log[i] = <<"parse", l, f>>}

\* C11: within one Loader a filename is parsed and wrapped at most once: once
\* it was, it stays in the Loader's cache, and no later request reads the file
\* or calls the ticker for it again.
C11_ParsedAtMostOnce ==
    \A l \in DOMAIN loaders : \A f \in Names :
        /\ Cardinality(ParsesOf(l, f)) <= 1
        /\ ParsesOf(l, f) # {} => f \in DOMAIN loaders[l].elements
        /\ \A i \in ParsesOf(l, f) : \A j \in DOMAIN log :
              j > i => log[j] # <<"tick", l, f>>

\* an element file that two elements of the same project depend on
C11_Witness ==
    /\ Loaded /\ err = NoError
    /\ \E x, y \in Nodes : \E z \in Nodes :
          /\ x # y /\ x[1] = y[1] /\ z[1] = x[1]
          /\ z \in Succ(x) \cap Succ(y)
          /\ Cardinality(ParsesOf(z[1], z[2])) = 1

\* an element reached from the targets lists an element of kind junction by
\* name, read off the files of the top-level project
JunctionNamed ==
    \E n \in ReferencedFiles : \E d \in Range(files[TopProject][n].deps) :
        /\ d.junction = NoJunction
        /\ files[TopProject][n].kind # "nofile"
        /\ files[TopProject][d.name].kind = "junction"

\* C12 (as stated): load() fails with InvalidData whenever an element lists,
\* by name, an element of kind junction as a dependency.
C12_JunctionDependencyFails ==
    (Loaded /\ JunctionNamed) => err = INVALID_DATA

\* C12 (amended): when an element lists, by name, an element of kind junction
\* as a dependency, load() fails in its first pass; it fails with InvalidData
\* unless a dependency met earlier fails the load first: a file that does not
\* exist (MissingFile), or a junction-qualified dependency whose subproject
\* needs a fetch (SubprojectFetchNeeded).
C12_JunctionDependencyFailsFirstPass ==
    (Loaded /\ JunctionNamed) =>
        /\ last.pass = "load"
        /\ \/ err = INVALID_DATA
           \/ err = MISSING_FILE /\ MissingReferenced
           \/ err = SUBPROJECT_FETCH_NEEDED /\ JunctionCrossed

\* the junction element is named by a dependency of a dependency, and every
\* file exists
C12_Witness ==
    /\ Loaded /\ err = INVALID_DATA
    /\ JunctionNamed /\ ~MissingReferenced
    /\ \A d \in Range(files[TopProject][Target].deps) :
          files[TopProject][d.name].kind = "stack"

\* ---------------------------------------------- claims on the collection
\* the MetaElements of the dependencies of x of the types kept, in the order
\* of x's dependency list
MetasOf(x, types) ==
    LET kept == SelectSeq(DepsOf(x), LAMBDA d : d.dep_type \in types)
    IN  [i \in DOMAIN kept |->
            loaders[NodeOf(x[1], kept[i])[1]].meta_elements[kept[i].name]]

\* C13: in the collected graph the build dependencies of an element are the
\* MetaElements of its build and all edges, its runtime dependencies those of
\* its runtime and all edges, each list in the order of the element's sorted
\* dependency list.
C13_ListsFollowEdgeKinds ==
    (Loaded /\ err = NoError) =>
        \A x \in Reachable :
            LET m == metas[loaders[x[1]].meta_elements[x[2]]]
            IN  /\ m.build_dependencies = MetasOf(x, {"build", "all"})
                /\ m.dependencies = MetasOf(x, {"runtime", "all"})

\* an element with a build, a runtime and an all dependency
C13_Witness ==
    /\ Loaded /\ err = NoError
    /\ \E x \in Reachable :
          /\ {d.dep_type : d \in Range(DepsOf(x))} = DepTypes
          /\ Len(metas[loaders[x[1]].meta_elements[x[2]]].build_dependencies) = 2
          /\ Len(metas[loaders[x[1]].meta_elements[x[2]]].dependencies) = 2


\* ------------------------------------------------------ claims on cleanup
\* the directories tempfile.mkdtemp made
Created == {log[i][2] : i \in {j \in DOMAIN log : log[j][1] = "mkdtemp"}}

Removals == {i \in DOMAIN log : log[i][1] = "rmtree"}

InBuildDir(path) == StartsWith(path, Append(builddir, Sep))

\* C14: every directory cleanup() removes is the temporary directory of a
\* Loader that has a parent, and its path is below builddir; the top-level
\* Loader removes nothing, and the temporary directory of a Loader that is not
\* below builddir still exists after cleanup().
C14_RemovesOnlyTempdirsInBuildDir ==
    /\ \A i \in Removals :
          /\ loaders[log[i][2]].parent # NoLoader
          /\ log[i][3] = loaders[log[i][2]].tempdir
          /\ InBuildDir(log[i][3])
          /\ Len(log[i][3]) > Len(builddir) + 1
    /\ Created \ dirs = {log[i][3] : i \in Removals}
    /\ \A l \in DOMAIN loaders :
          (loaders[l].parent # NoLoader /\ ~InBuildDir(loaders[l].tempdir))
              => loaders[l].tempdir \in dirs

C14_Witness ==
    /\ last.op = "cleanup"
    /\ Removals # {}
    /\ \E l \in DOMAIN loaders :
          /\ loaders[l].parent # NoLoader
          /\ ~StartsWith(loaders[l].tempdir, builddir)
          /\ loaders[l].tempdir \in dirs

\* the Loaders in the junction map of Loader l, the None entries left out
JunctionLoaders(l) ==
    {loaders[l].loaders[n] : n \in DOMAIN loaders[l].loaders} \ {NoLoader}

\* C15: a Loader removes its temporary directory only after cleanup() was
\* called on every Loader of its junction map.
C15_ChildrenFirst ==
    \A i \in Removals : \A c \in JunctionLoaders(log[i][2]) :
        \E j \in DOMAIN log : j < i /\ log[j] = <<"cleanup", c>>

C15_Witness ==
    /\ last.op = "cleanup"
    /\ \E i \in Removals :
          /\ Cardinality(JunctionLoaders(log[i][2])) >= 2
          /\ \E c \in JunctionLoaders(log[i][2]) : loaders[c].parent = log[i][2]

\* the configuration was loaded once, before the Loader was made
ConfiguredOnce == \A i \in DOMAIN log : log[i][1] # "config"

\* the load made temporary directories and failed, and cleanup() was called
\* on the top-level Loader
CleanedUpAfterFailure ==
    /\ last.op = "cleanup"
    /\ err # NoError
    /\ Created # {}
    /\ ConfiguredOnce

\* C16: when load() fails after temporary directories were made and the
\* caller calls cleanup() on the top-level Loader, none of the directories
\* made during the load is left.
C16_FailedLoadLeavesNoTempdir ==
    CleanedUpAfterFailure => Created \cap dirs = {}


\* ------------------------------------------ claims on the junction sources
\* the element file n as Loader l reads it
FileOf(l, n) == files[loaders[l].project][n]

\* _get_loader of Loader l loaded the element file n itself
Looked(l, n) == <<"parse", l, n>> \in Range(log)

Fetched(l, n, i) == <<"fetch", l, loaders[l].project, n, i>> \in Range(log)

StagedBy(l, n) == \E e \in Range(log) : e[1] = "stage" /\ e[2] = l /\ e[3] = n

\* the loop over the sources of junction n got to the i-th source: the ones
\* before it were cached, or pinned and fetched
Encountered(l, n, i) ==
    /\ Looked(l, n)
    /\ FileOf(l, n).kind = "junction"
    /\ i \in DOMAIN FileOf(l, n).sources
    /\ \A k \in 1..(i - 1) :
          \/ FileOf(l, n).sources[k] = "CACHED"
          \/ FileOf(l, n).sources[k] = "RESOLVED" /\ fetch_subprojects

\* no Loader was made for junction n of Loader l, and none is recorded
NoChild(l, n) ==
    /\ n \notin DOMAIN loaders[l].loaders
    /\ \A c \in DOMAIN loaders : ~(loaders[c].parent = l /\ loaders[c].junction = n)

C19_ProjectErrors ==
    \A l \in DOMAIN loaders, n \in JNames :
        (StagedBy(l, n) /\ FileOf(l, n).project \notin SubProjects) =>
            /\ FileOf(l, n).project = NoProjectConf => err = INVALID_JUNCTION
            /\ FileOf(l, n).project = BadProjectConf => err = INVALID_YAML
            /\ NoChild(l, n)
            /\ n \notin DOMAIN loaders[last.loader].loaders

C19_Witness ==
    /\ last.op = "get_loader"
    /\ last.loader # RootLoader
    /\ StagedBy(RootLoader, last.name)
    /\ err = INVALID_JUNCTION

\* C20: when the element a junction qualifier names exists and its kind is
\* not junction, the resolution fails with INVALID_DATA, and no source of the
\* element was fetched or staged.
C20_NotAJunctionFails ==
    \A l \in DOMAIN loaders, n \in JNames :
        (Looked(l, n) /\ FileOf(l, n).kind = "stack") =>
            /\ err = INVALID_DATA
            /\ \A i \in DOMAIN FileOf(l, n).sources : ~Fetched(l, n, i)
            /\ ~StagedBy(l, n)
            /\ NoChild(l, n)

C20_Witness ==
    \E l \in DOMAIN loaders, n \in JNames :
        /\ Looked(l, n)
        /\ FileOf(l, n).kind = "stack"
        /\ FileOf(l, n).sources = <<"RESOLVED">>
        /\ fetch_subprojects
        /\ err = INVALID_DATA


\* ------------------------------------------------- the junction element
\* A string is the sequence of its characters.
MaxTarget == 3     \* longest 'target' string
Chars == {"a", "b", ":"}
Strings(n) == UNION {[1..k -> Chars] : k \in 0..n}

RECURSIVE Split(_, _)
\* str.split(sep): the parts between the separators, in order
Split(str, sep) ==
    IF \A i \in DOMAIN str : str[i] # sep
    THEN <<str>>
    ELSE LET k == CHOOSE i \in DOMAIN str :
                     str[i] = sep /\ \A j \in 1..(i - 1) : str[j] # sep
         IN  <<SubSeq(str, 1, k - 1)>> \o Split(SubSeq(str, k + 1, Len(str)), sep)

\* bool(x) of an optional string: None and '' are false
Truthy(opt) == opt # None /\ opt[1] # <<>>

\* the ElementError messages of JunctionElement.preflight
NotRaised == "not raised"
SOURCES_AND_TARGET == "junction elements cannot define both 'sources' and 'target' config option"
OPTIONS_AND_TARGET == "junction elements cannot define both 'options' and 'target'"
PATH_AND_TARGET == "junction elements cannot define both 'path' and 'target'"
TARGET_FORMAT == "'target' option must be in format '{junction-name}:{element-name}'"
SAME_NAME == "junction elements cannot target an element with the same name"

\* JunctionElement.configure(node), of the element called name
Configure(name, sources, options, path, target) ==
    [name |-> name, sources |-> sources, options |-> options, path |-> path,
     target |-> target, target_element |-> None, target_junction |-> None,
     preflight |-> "not run"]

PreflightRaises(e, message) == [e EXCEPT !.preflight = message]

\* a preflight that lets a junction target an element of its own name
PreflightSplitOnly(e) ==
    IF Truthy(e.target)
    THEN IF Len(Split(e.target[1], ":")) # 2
         THEN PreflightRaises(e, TARGET_FORMAT)
         ELSE [e EXCEPT !.target_junction = Some(Split(e.target[1], ":")[1]),
                        !.target_element = Some(Split(e.target[1], ":")[2]),
                        !.preflight = NotRaised]
    ELSE [e EXCEPT !.preflight = NotRaised]

\* JunctionElement.preflight from "Validate format of target" on
PreflightSplit(e) ==
    IF Truthy(e.target)
    THEN IF Len(Split(e.target[1], ":")) # 2
         THEN PreflightRaises(e, TARGET_FORMAT)
         ELSE IF Some(e.name) = Some(Split(e.target[1], ":")[2])
         THEN PreflightRaises(
                  [e EXCEPT !.target_junction = Some(Split(e.target[1], ":")[1]),
                            !.target_element = Some(Split(e.target[1], ":")[2])],
                  SAME_NAME)
         ELSE [e EXCEPT !.target_junction = Some(Split(e.target[1], ":")[1]),
                        !.target_element = Some(Split(e.target[1], ":")[2]),
                        !.preflight = NotRaised]
    ELSE IF Some(e.name) = e.target_element
    THEN PreflightRaises(e, SAME_NAME)
    ELSE [e EXCEPT !.preflight = NotRaised]

\* a preflight that does not mind sources next to a target
PreflightSourcesAllowed(e) ==
    IF Truthy(e.target) /\ e.options # {}
    THEN PreflightRaises(e, OPTIONS_AND_TARGET)
    ELSE IF Truthy(e.target) /\ e.path # <<>>
    THEN PreflightRaises(e, PATH_AND_TARGET)
    ELSE PreflightSplit(e)

\* JunctionElement.preflight
Preflight(e) ==
    IF Truthy(e.target) /\ e.sources # <<>>
    THEN PreflightRaises(e, SOURCES_AND_TARGET)
    ELSE IF Truthy(e.target) /\ e.options # {}
    THEN PreflightRaises(e, OPTIONS_AND_TARGET)
    ELSE IF Truthy(e.target) /\ e.path # <<>>
    THEN PreflightRaises(e, PATH_AND_TARGET)
    ELSE PreflightSplit(e)

\* the junction elements a project may hold
JunctionElements ==
    {Configure(name, sources, options, path, target) :
        name \in {<<"a">>, <<"b">>},
        sources \in {<<>>, <<"CACHED">>},
        options \in {{}, {"debug"}},
        path \in {<<>>, <<"a">>},
        target \in {None} \cup {Some(str) : str \in Strings(MaxTarget)}}

InitPreflight ==
    /\ element \in JunctionElements
    /\ refs = Unused
    /\ context = Unused
    /\ share = Unused
    /\ NoLoad

\* element._preflight()
PreflightAction ==
    /\ element.preflight = "not run"
    /\ element' = Preflight(element)
    /\ UNCHANGED <<world, program, refs, context, share>>

NextPreflight == PreflightAction

SpecPreflight == InitPreflight /\ [][NextPreflight]_vars

\* the junction sets a target: the option is there and is not empty
SetsTarget == element.target # None /\ element.target[1] # <<>>

Colons == {i \in DOMAIN element.target[1] : element.target[1][i] = ":"}

\* the part of the target after its one colon
ElementPart ==
    LET k == CHOOSE i \in Colons : TRUE
    IN  SubSeq(element.target[1], k + 1, Len(element.target[1]))

Rejected == element.preflight \notin {"not run", NotRaised}

\* C21: preflight raises an ElementError for every junction whose target
\* names, after its colon, an element called like the junction itself, and
\* raises nothing for a junction without a target.
C21_SelfTargetRejected ==
    element.preflight # "not run" =>
        /\ (SetsTarget /\ Cardinality(Colons) = 1 /\ ElementPart = element.name) => Rejected
        /\ element.target = None => element.preflight = NotRaised

C21_Witness ==
    /\ element.preflight = SAME_NAME
    /\ element.target = Some(<<"b", ":", "a">>)
    /\ element.name = <<"a">>

\* C22: preflight raises an ElementError for every junction that sets a
\* target together with sources, with options that are not empty or with a
\* path that is not empty, and for every target that has not exactly one colon.
C22_TargetExcludesOthers ==
    (element.preflight # "not run" /\ SetsTarget) =>
        /\ element.sources # <<>> => element.preflight = SOURCES_AND_TARGET
        /\ (element.sources # <<>> \/ element.options # {} \/ element.path # <<>>) => Rejected
        /\ Cardinality(Colons) # 1 => Rejected
        /\ (/\ element.sources = <<>> /\ element.options = {} /\ element.path = <<>>
            /\ Cardinality(Colons) # 1) => element.preflight = TARGET_FORMAT

C22_Witness ==
    /\ element.preflight = TARGET_FORMAT
    /\ Cardinality(Colons) = 2


\* ------------------------------------------- claims on junction elements
\* the elements of kind junction that were collected
CollectedJunctions ==
    {x \in {<<l, n>> : l \in DOMAIN loaders, n \in Names} :
        /\ x[2] \in DOMAIN loaders[x[1]].meta_elements
        /\ metas[loaders[x[1]].meta_elements[x[2]]].kind = "junction"}

\* C23: collecting an element of kind junction that declares a dependency
\* fails with INVALID_DATA and gives the junction no dependency, and no
\* collection fails so for junctions that declare none.
C23_JunctionsHaveNoDependencies ==
    Loaded =>
        /\ \A x \in CollectedJunctions :
              loaders[x[1]].elements[x[2]] # <<>> =>
                  /\ err = INVALID_DATA
                  /\ metas[loaders[x[1]].meta_elements[x[2]]].build_dependencies = <<>>
                  /\ metas[loaders[x[1]].meta_elements[x[2]]].dependencies = <<>>
        /\ (err = INVALID_DATA /\ last.pass = "collect") =>
              \E x \in CollectedJunctions : loaders[x[1]].elements[x[2]] # <<>>
        /\ (CollectedJunctions = {<<RootLoader, Target>>}
                /\ loaders[RootLoader].elements[Target] = <<>>) => err = NoError

C23_Witness ==
    /\ Loaded
    /\ last.pass = "collect"
    /\ err = INVALID_DATA
    /\ <<RootLoader, Target>> \in CollectedJunctions
    /\ Len(loaders[RootLoader].elements[Target]) = 2


\* ------------------------------------------------- ProjectRefs (project.refs)
MaxIndex == 2      \* source indices are 0..MaxIndex
MaxLookups == 3    \* lookup_ref is called at most MaxLookups times

RefProjects == {"p", "q"}
RefElements == {"e", "f"}

\* a ref node: a dict, told from the others by its identity; a node of the
\* tree that _yaml.load copied carries the provenance of the node it is a
\* copy of
RefNode(id, copied) == [id |-> id, copied |-> copied]

\* a toplevel dict: its 'projects' key when it has one, and whether it has
\* a key other than 'projects'
RefTree(projects, other) == [projects |-> projects, other |-> other]

\* project.refs on disk: missing, not parseable, or a tree, which may hold a
\* directive that is left unprocessed
RefFile(kind, tree, directive) == [kind |-> kind, tree |-> tree, directive |-> directive]

OriginalList(first, n) == [i \in 1..n |-> RefNode(first + i - 1, FALSE)]

RefElementMaps ==
    {EmptyMap}
    \cup {Put(EmptyMap, "e", OriginalList(1, n)) : n \in 0..MaxIndex}
    \cup {Put(Put(EmptyMap, "e", OriginalList(1, n)), "f", OriginalList(n + 1, 1)) :
              n \in 1..MaxIndex}

RefTrees ==
    {RefTree(None, FALSE), RefTree(None, TRUE), RefTree(Some(EmptyMap), FALSE)}
    \cup {RefTree(Some(Put(EmptyMap, "p", elems)), FALSE) : elems \in RefElementMaps}
    \cup {RefTree(Some(Put(Put(EmptyMap, "p", elems), "q", EmptyMap)), TRUE) :
              elems \in {Put(EmptyMap, "e", OriginalList(1, 1))}}

RefFiles ==
    {RefFile("missing", RefTree(None, FALSE), FALSE),
     RefFile("malformed", RefTree(None, FALSE), FALSE),
     RefFile("tree", RefTree(Some(EmptyMap), FALSE), TRUE)}
    \cup {RefFile("tree", tree, FALSE) : tree \in RefTrees}

\* the identity of the first dict made after the file was parsed
FirstFresh == MaxIndex + 3

\* ProjectRefs.__init__
NewProjectRefs(file) ==
    [file |-> file, toplevel_node |-> None, toplevel_save |-> None,
     heap |-> EmptyMap, fresh |-> FirstFresh, err |-> NoError, op |-> "init",
     before |-> EmptyMap, log |-> <<>>]

\* _yaml.load(..., copy_tree=True): a copy of the tree, each node of which
\* has the provenance of the node of the original
CopyTree(tree) ==
    IF tree.projects = None
    THEN tree
    ELSE RefTree(Some([p \in DOMAIN tree.projects[1] |->
                          [e \in DOMAIN tree.projects[1][p] |->
                              [i \in DOMAIN tree.projects[1][p][e] |->
                                  RefNode(tree.projects[1][p][e][i].id, TRUE)]]]),
                 tree.other)

\* the two views after the file was parsed: the copy at address 1 and
\* provenance.toplevel, the original, at address 2
LoadParsed(r) ==
    [r EXCEPT !.toplevel_node = Some(1), !.toplevel_save = Some(2),
              !.heap = Put(Put(EmptyMap, 1, CopyTree(r.file.tree)), 2, r.file.tree)]

\* the file does not exist: one empty dict is both views
LoadMissing(r) ==
    [r EXCEPT !.toplevel_node = Some(1), !.toplevel_save = Some(1),
              !.heap = Put(EmptyMap, 1, RefTree(None, FALSE))]

\* if 'projects' not in node: node['projects'] = {}
EnsureProjects(r, a) ==
    IF r.heap[a].projects = None
    THEN [r EXCEPT !.heap[a].projects = Some(EmptyMap)]
    ELSE r

\* _yaml.node_validate(self.toplevel_node, ['projects']) and the loop after it
LoadValidate(r) ==
    IF r.heap[r.toplevel_node[1]].other
    THEN [r EXCEPT !.err = INVALID_DATA]
    ELSE EnsureProjects(EnsureProjects(r, r.toplevel_node[1]), r.toplevel_save[1])

\* an except clause that takes every LoadError for a missing file
LoadExceptAny(r, reason) ==
    LoadValidate(LoadMissing(r))

\* except LoadError as e
LoadExcept(r, reason) ==
    IF reason # MISSING_FILE
    THEN [r EXCEPT !.err = reason]
    ELSE LoadValidate(LoadMissing(r))

\* ProjectRefs.load
RefsLoad(r) ==
    IF r.file.kind = "missing"
    THEN LoadExcept(r, MISSING_FILE)
    ELSE IF r.file.kind = "malformed"
    THEN LoadExcept(r, INVALID_YAML)
    ELSE IF r.file.directive
    THEN LoadExcept(LoadParsed(r), INVALID_DATA)
    ELSE LoadValidate(LoadParsed(r))

\* what _lookup and lookup_ref come to: the ProjectRefs and the node returned
Found(r, node) == [refs |-> r, node |-> node]

\* a padding that makes every dict of the list anew
PaddedAfresh(list, source_index, fresh) ==
    [i \in 1..(source_index + 1) |-> RefNode(fresh + i - 1, FALSE)]

\* element_list.extend({} for _ in range(len(element_list), source_index + 1))
Padded(list, source_index, fresh) ==
    [i \in 1..(source_index + 1) |->
        IF i <= Len(list) THEN list[i] ELSE RefNode(fresh + i - Len(list) - 1, FALSE)]

\* _lookup: fetch the source index
LookupIndex(r, a, project, elem, source_index, ensure) ==
    IF source_index < Len(r.heap[a].projects[1][project][elem])
    THEN Found(r, Some(r.heap[a].projects[1][project][elem][source_index + 1]))
    ELSE IF ~ensure
    THEN Found(r, None)
    ELSE Found([r EXCEPT !.heap[a].projects[1][project][elem] =
                             Padded(@, source_index, r.fresh),
                         !.fresh = r.fresh + source_index + 1
                                   - Len(r.heap[a].projects[1][project][elem])],
               Some(RefNode(r.fresh + source_index
                            - Len(r.heap[a].projects[1][project][elem]), FALSE)))

\* _lookup: fetch the element
LookupElement(r, a, project, elem, source_index, ensure) ==
    IF elem \in DOMAIN r.heap[a].projects[1][project]
    THEN LookupIndex(r, a, project, elem, source_index, ensure)
    ELSE IF ~ensure
    THEN Found(r, None)
    ELSE LookupIndex([r EXCEPT !.heap[a].projects[1][project] = Put(@, elem, <<>>)],
                     a, project, elem, source_index, ensure)

\* a _lookup that always ensures
LookupEnsuring(r, a, project, elem, source_index, ensure) ==
    IF project \in DOMAIN r.heap[a].projects[1]
    THEN LookupElement(r, a, project, elem, source_index, TRUE)
    ELSE LookupElement([r EXCEPT !.heap[a].projects[1] = Put(@, project, EmptyMap)],
                       a, project, elem, source_index, TRUE)

\* ProjectRefs._lookup
Lookup(r, a, project, elem, source_index, ensure) ==
    IF project \in DOMAIN r.heap[a].projects[1]
    THEN LookupElement(r, a, project, elem, source_index, ensure)
    ELSE IF ~ensure
    THEN Found(r, None)
    ELSE LookupElement([r EXCEPT !.heap[a].projects[1] = Put(@, project, EmptyMap)],
                       a, project, elem, source_index, ensure)

\* _yaml.node_get_provenance(node): a copied node has the provenance of the
\* original, whose node is the original; a dict made here has none
Provenance(node) ==
    IF node.copied THEN Some(RefNode(node.id, FALSE)) ELSE None

\* lookup_ref: if write, with F what _lookup found in toplevel_node
LookupRefWrite(F, project, elem, source_index) ==
    IF F.node # None
    THEN IF Provenance(F.node[1]) # None
         THEN Found(F.refs, Provenance(F.node[1]))
         ELSE F
    ELSE Lookup(F.refs, F.refs.toplevel_save[1], project, elem, source_index, TRUE)

\* ProjectRefs.lookup_ref
LookupRef(r, project, elem, source_index, write) ==
    IF write
    THEN LookupRefWrite(Lookup(r, r.toplevel_node[1], project, elem, source_index, FALSE),
                        project, elem, source_index)
    ELSE Lookup(r, r.toplevel_node[1], project, elem, source_index, FALSE)

\* the call is kept with what it returned and the dicts it made
LookupLogged(r, F, project, elem, source_index, write) ==
    [F.refs EXCEPT !.op = "lookup_ref",
                   !.before = r.heap,
                   !.log = Append(r.log, [project |-> project, element |-> elem,
                                          source_index |-> source_index, write |-> write,
                                          node |-> F.node,
                                          created |-> F.refs.fresh - r.fresh])]

InitRefs ==
    /\ refs \in {NewProjectRefs(file) : file \in RefFiles}
    /\ element = Unused
    /\ context = Unused
    /\ share = Unused
    /\ NoLoad

RefsLoadAction ==
    /\ refs.op = "init"
    /\ refs' = [RefsLoad(refs) EXCEPT !.op = "load"]
    /\ UNCHANGED <<world, program, element, context, share>>

RefsLookupAction ==
    \E project \in RefProjects, elem \in RefElements,
       source_index \in 0..MaxIndex, write \in BOOLEAN :
        /\ refs.op \in {"load", "lookup_ref"}
        /\ refs.err = NoError
        /\ Len(refs.log) < MaxLookups
        /\ refs' = LookupLogged(refs, LookupRef(refs, project, elem, source_index, write),
                          project, elem, source_index, write)
        /\ UNCHANGED <<world, program, element, context, share>>

NextRefs == RefsLoadAction \/ RefsLookupAction

SpecRefs == InitRefs /\ [][NextRefs]_vars

\* the tree of a view
View(a) == refs.heap[a[1]]

\* C24: load() of a missing project.refs completes with an empty 'projects'
\* mapping in the loaded view and in the save view, and every other error of
\* the load is raised to the caller.
C24_MissingFileIsEmptyTree ==
    refs.op = "load" =>
        /\ refs.file.kind = "missing" =>
              /\ refs.err = NoError
              /\ View(refs.toplevel_node).projects = Some(EmptyMap)
              /\ View(refs.toplevel_save).projects = Some(EmptyMap)
        /\ refs.file.kind = "malformed" => refs.err = INVALID_YAML
        /\ (refs.file.kind = "tree" /\ (refs.file.directive \/ refs.file.tree.other)) =>
              refs.err = INVALID_DATA
        /\ (refs.file.kind = "tree" /\ ~refs.file.directive /\ ~refs.file.tree.other) =>
              refs.err = NoError

C24_Witness ==
    /\ refs.op = "load"
    /\ refs.file.kind = "missing"
    /\ refs.err = NoError
    /\ refs.toplevel_node # None

\* the last call of lookup_ref
LastLookup == refs.log[Len(refs.log)]

\* the tree holds a node for the triple
Present(tree, project, elem, source_index) ==
    /\ project \in DOMAIN tree.projects[1]
    /\ elem \in DOMAIN tree.projects[1][project]
    /\ source_index < Len(tree.projects[1][project][elem])

\* C25: a lookup_ref with write=False leaves both trees as they were and
\* makes no node, and returns None exactly when the loaded view has no node
\* for the triple; only lookups with write=True change a tree.
C25_ReadingCreatesNothing ==
    refs.op = "lookup_ref" =>
        /\ ~LastLookup.write =>
              /\ refs.heap = refs.before
              /\ LastLookup.created = 0
              /\ LastLookup.node = None <=>
                     ~Present(refs.before[refs.toplevel_node[1]], LastLookup.project,
                              LastLookup.element, LastLookup.source_index)
        /\ refs.heap # refs.before => LastLookup.write

C25_Witness ==
    /\ refs.op = "lookup_ref"
    /\ Len(refs.log) = 2
    /\ refs.log[1].write
    /\ refs.log[1].created > 0
    /\ ~LastLookup.write
    /\ LastLookup.node = None
    /\ LastLookup.project \in DOMAIN View(refs.toplevel_node).projects[1]
    /\ LastLookup.element \in DOMAIN View(refs.toplevel_node).projects[1][LastLookup.project]

\* two calls are for the same triple
SameTriple(x, y) ==
    /\ x.project = y.project
    /\ x.element = y.element
    /\ x.source_index = y.source_index

\* C26: two lookups with write=True of one triple return the same node and
\* the second makes no node, and a call leaves every node that was in a list
\* where it was.
C26_OneNodePerTriple ==
    /\ \A i \in DOMAIN refs.log : \A j \in DOMAIN refs.log :
          (i < j /\ refs.log[i].write /\ refs.log[j].write
                 /\ SameTriple(refs.log[i], refs.log[j])) =>
              /\ refs.log[j].node = refs.log[i].node
              /\ refs.log[j].created = 0
    /\ refs.op = "lookup_ref" =>
          \A a \in DOMAIN refs.before :
              \A p \in DOMAIN refs.before[a].projects[1] :
                  \A e \in DOMAIN refs.before[a].projects[1][p] :
                      \A i \in DOMAIN refs.before[a].projects[1][p][e] :
                          /\ Present(refs.heap[a], p, e, i - 1)
                          /\ refs.heap[a].projects[1][p][e][i]
                                 = refs.before[a].projects[1][p][e][i]

C26_Witness ==
    /\ refs.file.kind = "tree"
    /\ Len(refs.log) = 2
    /\ refs.log[1].write
    /\ refs.log[1].source_index = MaxIndex
    /\ refs.log[1].created = 1
    /\ refs.log[2].write
    /\ SameTriple(refs.log[1], refs.log[2])
    /\ refs.log[2].node = Some(RefNode(FirstFresh, FALSE))


\* ------------------------------------------------ Context.load (_context.py)
\* a YAML scalar, kept as its text, and a YAML mapping
Scalar(text) == [type |-> "scalar", text |-> text]
MappingValue == [type |-> "mapping", text |-> ""]

\* a configuration tree: the keys read below when they are there, and whether
\* the toplevel and the 'scheduler' mapping hold a key that is not allowed
Config(on_error, fetchers, dir, other, sched_other) ==
    [on_error |-> on_error, fetchers |-> fetchers, builddir |-> dir,
     other |-> other, sched_other |-> sched_other]

\* _site.default_user_config
DefaultConfig ==
    Config(Some(Scalar("quit")), Some(Scalar("4")), Some(<<"~", "build">>), FALSE, FALSE)

OnErrorValues ==
    {None, Some(Scalar("continue")), Some(Scalar("quit")), Some(Scalar("terminate")),
     Some(Scalar("Quit")), Some(Scalar("")), Some(MappingValue)}

ConfigTrees ==
    {Config(on_error, fetchers, dir, other, sched_other) :
        on_error \in OnErrorValues,
        fetchers \in {None, Some(Scalar("many"))},
        dir \in {None, Some(<<Sep, "build">>)},
        other \in BOOLEAN, sched_other \in BOOLEAN}

\* the configuration file: missing, not parseable, or a tree
ConfigFile(kind, tree) == [kind |-> kind, tree |-> tree]

ConfigFiles ==
    {ConfigFile("missing", DefaultConfig), ConfigFile("malformed", DefaultConfig)}
    \cup {ConfigFile("tree", tree) : tree \in ConfigTrees}

\* os.path.expanduser(path)
Expanduser(path) ==
    IF path # <<>> /\ path[1] = "~"
    THEN <<Sep, "home">> \o Tail(path)
    ELSE path

\* int(text) of _yaml.node_get(..., int, ...) is defined
IsInt(text) == text \in {"0", "4", "10"}

\* _yaml.composite(defaults, user_config), key by key
Over(default, value) == IF value = None THEN default ELSE value

Composite(defaults, user_config) ==
    Config(Over(defaults.on_error, user_config.on_error),
           Over(defaults.fetchers, user_config.fetchers),
           Over(defaults.builddir, user_config.builddir),
           defaults.other \/ user_config.other,
           defaults.sched_other \/ user_config.sched_other)

\* Context.__init__, with the argument of load(), whether
\* $XDG_CONFIG_HOME/buildstream.conf exists, and the file that is read
NewContext(config, xdg, file) ==
    [config |-> config, xdg |-> xdg, file |-> file, op |-> "init",
     err |-> NoError, raised |-> "nowhere", config_origin |-> None,
     builddir |-> None, sched_error_action |-> None, sched_fetchers |-> None]

ContextRaise(c, reason, where) == [c EXCEPT !.err = reason, !.raised = where]

valid_actions == <<"continue", "quit">>

\* a load that takes every action for a valid one
LoadOnErrorAny(c) ==
    c

\* if self.sched_error_action not in valid_actions
LoadOnError(c) ==
    IF \A i \in DOMAIN valid_actions : valid_actions[i] # c.sched_error_action[1]
    THEN ContextRaise(c, INVALID_DATA, "on-error")
    ELSE c

\* Load scheduler config
LoadScheduler(c, defaults) ==
    IF defaults.sched_other
    THEN ContextRaise(c, INVALID_DATA, "node_validate")
    ELSE IF defaults.on_error[1].type # "scalar"
    THEN ContextRaise(c, INVALID_DATA, "node_get")
    ELSE IF ~IsInt(defaults.fetchers[1].text)
    THEN ContextRaise([c EXCEPT !.sched_error_action = Some(defaults.on_error[1].text)],
                      INVALID_DATA, "node_get")
    ELSE LoadOnError([c EXCEPT !.sched_error_action = Some(defaults.on_error[1].text),
                               !.sched_fetchers = Some(defaults.fetchers[1].text)])

\* _yaml.node_validate(defaults, [...]) and the directories
LoadDefaults(c, defaults) ==
    IF defaults.other
    THEN ContextRaise(c, INVALID_DATA, "node_validate")
    ELSE LoadScheduler([c EXCEPT !.builddir = Some(Expanduser(defaults.builddir[1]))],
                       defaults)

\* if config: user_config = _yaml.load(config)
LoadUserConfig(c, config) ==
    IF config = None
    THEN LoadDefaults(c, DefaultConfig)
    ELSE IF c.file.kind = "missing"
    THEN ContextRaise([c EXCEPT !.config_origin = config], MISSING_FILE, "load")
    ELSE IF c.file.kind = "malformed"
    THEN ContextRaise([c EXCEPT !.config_origin = config], INVALID_YAML, "load")
    ELSE LoadDefaults([c EXCEPT !.config_origin = config],
                      Composite(DefaultConfig, c.file.tree))

\* Context.load(config)
ContextLoadConfig(c) ==
    IF c.config = None /\ c.xdg
    THEN LoadUserConfig(c, Some("buildstream.conf"))
    ELSE LoadUserConfig(c, c.config)

\* the files that can be read: with no argument the default file is read
\* only if it exists
Contexts ==
    {NewContext(config, xdg, file) :
         config \in {None, Some("user.conf")}, xdg \in BOOLEAN, file \in ConfigFiles}

InitContext ==
    /\ context \in {c \in Contexts : c.config = None => c.file.kind # "missing"}
    /\ element = Unused
    /\ refs = Unused
    /\ share = Unused
    /\ NoLoad

ContextLoadAction ==
    /\ context.op = "init"
    /\ context' = [ContextLoadConfig(context) EXCEPT !.op = "load"]
    /\ UNCHANGED <<world, program, element, refs, share>>

NextContext == ContextLoadAction

SpecContext == InitContext /\ [][NextContext]_vars

\* the file is read: it is named, or it is the default file and exists
ReadsFile == context.config # None \/ context.xdg

\* the 'on-error' setting of the composed configuration
OnErrorSetting ==
    IF ReadsFile /\ context.file.kind = "tree" /\ context.file.tree.on_error # None
    THEN context.file.tree.on_error[1]
    ELSE DefaultConfig.on_error[1]

ValidSetting == OnErrorSetting \in {Scalar("continue"), Scalar("quit")}

\* nothing but the 'on-error' setting can make the load fail
OtherwiseSound ==
    ReadsFile =>
        /\ context.file.kind = "tree"
        /\ ~context.file.tree.other
        /\ ~context.file.tree.sched_other
        /\ context.file.tree.fetchers = None

\* C27: load() of a configuration whose 'on-error' is not 'continue' or
\* 'quit' fails with INVALID_DATA, and the test of 'on-error' raises for no
\* configuration whose setting is one of the two, which then loads if
\* nothing else is wrong with it.
C27_OnErrorIsContinueOrQuit ==
    (context.op = "load" /\ (ReadsFile => context.file.kind = "tree")) =>
        /\ ~ValidSetting => context.err = INVALID_DATA
        /\ ValidSetting => context.raised # "on-error"
        /\ (ValidSetting /\ OtherwiseSound) => context.err = NoError
        /\ (~ValidSetting /\ OtherwiseSound /\ OnErrorSetting.type = "scalar") =>
              context.raised = "on-error"

C27_Witness ==
    /\ context.op = "load"
    /\ context.err = INVALID_DATA
    /\ context.raised = "on-error"
    /\ context.sched_error_action = Some("terminate")
    /\ context.sched_fetchers # None
    /\ context.builddir # None


\* ------------------------------------ the artifact service of an artifact share
OK == "OK"
NOT_FOUND == "NOT_FOUND"
FAILED_PRECONDITION == "FAILED_PRECONDITION"

PROTO_NOT_FOUND == "Artifact proto not found"
NO_FILES_FOUND == "Artifact files specified but no files found"
DIRECTORY_NOT_FOUND == "Artifact files specified but directory not found"

\* the buffers of the test: re_pb2.Directory().SerializeToString(), which is
\* empty, and the bytes of "abcdefghijklmnop"
DirectoryBuffer == <<>>
BlobBuffer == <<"abcdefghijklmnop">>
Buffers == {DirectoryBuffer, BlobBuffer}

\* utils._message_digest(buffer): the digest names the content
MessageDigest(buffer) == [hash |-> <<"sha256">> \o buffer]

CacheKeys == {"a-cache-key", "@artifact/something/not_there"}

\* Artifact(): version, build_success, strong_key and the files digest
Artifact(version, digest) ==
    [version |-> version, build_success |-> TRUE,
     strong_key |-> "abcdefghijklmnop", files |-> digest]

Artifacts == {Artifact(version, MessageDigest(buffer)) : version \in {0, 1}, buffer \in Buffers}

\* what a call of the stub comes to: the response, or the code and details
\* of the grpc.RpcError
Response(code, details, artifact) ==
    [code |-> code, details |-> details, artifact |-> artifact]

\* create_artifact_share(sharedir): nothing stored, nothing asked
NewShare ==
    [cas |-> EmptyMap, artifacts |-> EmptyMap, sent |-> EmptyMap, op |-> "init",
     cache_key |-> "", request |-> None, response |-> Response(OK, "", None)]

\* share.cas.add_object(buffer=buffer)
AddObject(s, buffer) ==
    [s EXCEPT !.cas = Put(@, MessageDigest(buffer), buffer)]

\* the buffer parses as a Directory message
IsDirectory(buffer) == buffer = DirectoryBuffer

\* a service that answers an unknown key with an artifact of its own making
GetArtifactAlways(s, cache_key) ==
    IF cache_key \in DOMAIN s.artifacts
    THEN Response(OK, "", Some(s.artifacts[cache_key]))
    ELSE Response(OK, "", Some(Artifact(0, MessageDigest(DirectoryBuffer))))

\* the service answers GetArtifact with the artifact kept under the key
GetArtifact(s, cache_key) ==
    IF cache_key \in DOMAIN s.artifacts
    THEN Response(OK, "", Some(s.artifacts[cache_key]))
    ELSE Response(NOT_FOUND, PROTO_NOT_FOUND, None)

\* a service that keeps every artifact it is sent
UpdateUnchecked(s, cache_key, artifact) ==
    Response(OK, "", Some(artifact))

\* the service answers UpdateArtifact after looking the files up
UpdateArtifact(s, cache_key, artifact) ==
    IF artifact.files \notin DOMAIN s.cas
    THEN Response(FAILED_PRECONDITION, NO_FILES_FOUND, None)
    ELSE IF ~IsDirectory(s.cas[artifact.files])
    THEN Response(FAILED_PRECONDITION, DIRECTORY_NOT_FOUND, None)
    ELSE Response(OK, "", Some(artifact))

\* the service keeps the artifact of a request it answered with OK
Updated(s, cache_key, artifact, R) ==
    IF R.code = OK
    THEN [s EXCEPT !.artifacts = Put(@, cache_key, artifact),
                   !.sent = Put(@, cache_key, artifact),
                   !.op = "UpdateArtifact", !.cache_key = cache_key,
                   !.request = Some(artifact), !.response = R]
    ELSE [s EXCEPT !.op = "UpdateArtifact", !.cache_key = cache_key,
                   !.request = Some(artifact), !.response = R]

InitShare ==
    /\ share = NewShare
    /\ element = Unused
    /\ refs = Unused
    /\ context = Unused
    /\ NoLoad

AddObjectAction ==
    \E buffer \in Buffers :
        /\ MessageDigest(buffer) \notin DOMAIN share.cas
        /\ share' = [AddObject(share, buffer) EXCEPT !.op = "add_object", !.request = None]
        /\ UNCHANGED <<world, program, element, refs, context>>

UpdateArtifactAction ==
    \E cache_key \in CacheKeys, artifact \in Artifacts :
        /\ share' = Updated(share, cache_key, artifact,
                            UpdateArtifact(share, cache_key, artifact))
        /\ UNCHANGED <<world, program, element, refs, context>>

GetArtifactAction ==
    \E cache_key \in CacheKeys :
        /\ share' = [share EXCEPT !.op = "GetArtifact", !.cache_key = cache_key,
                                  !.request = None,
                                  !.response = GetArtifact(share, cache_key)]
        /\ UNCHANGED <<world, program, element, refs, context>>

NextShare == AddObjectAction \/ UpdateArtifactAction \/ GetArtifactAction

SpecShare == InitShare /\ [][NextShare]_vars

\* C28: GetArtifact of a cache key under which no UpdateArtifact succeeded
\* fails with NOT_FOUND, 'Artifact proto not found', and returns no artifact.
C28_UnknownKeyNotFound ==
    (share.op = "GetArtifact" /\ share.cache_key \notin DOMAIN share.sent) =>
        /\ share.response.code = NOT_FOUND
        /\ share.response.details = PROTO_NOT_FOUND
        /\ share.response.artifact = None

C28_Witness ==
    /\ share.op = "GetArtifact"
    /\ share.cache_key = "@artifact/something/not_there"
    /\ share.response.code = NOT_FOUND
    /\ "a-cache-key" \in DOMAIN share.sent

\* the files of the last request are a directory object of the store
FilesAreDirectory ==
    /\ share.request[1].files \in DOMAIN share.cas
    /\ IsDirectory(share.cas[share.request[1].files])

\* C29: UpdateArtifact returns the artifact it was sent exactly when the
\* files digest names a directory object of the store, and fails with
\* FAILED_PRECONDITION when the digest names no object or an object that is
\* no directory; GetArtifact of the key then returns the artifact last sent.
C29_UpdateNeedsDirectory ==
    /\ share.op = "UpdateArtifact" =>
          /\ FilesAreDirectory =>
                /\ share.response.code = OK
                /\ share.response.artifact = share.request
          /\ ~FilesAreDirectory =>
                /\ share.response.code = FAILED_PRECONDITION
                /\ share.response.artifact = None
                /\ share.response.details =
                       IF share.request[1].files \in DOMAIN share.cas
                       THEN DIRECTORY_NOT_FOUND
                       ELSE NO_FILES_FOUND
    /\ (share.op = "GetArtifact" /\ share.cache_key \in DOMAIN share.sent) =>
          /\ share.response.code = OK
          /\ share.response.artifact = Some(share.sent[share.cache_key])
          /\ share.sent[share.cache_key].files \in DOMAIN share.cas

C29_Witness ==
    /\ share.op = "GetArtifact"
    /\ share.cache_key = "a-cache-key"
    /\ share.response.code = OK
    /\ share.response.artifact = Some(Artifact(0, MessageDigest(DirectoryBuffer)))
    /\ MessageDigest(BlobBuffer) \in DOMAIN share.cas


\* ------------------------------------------------- claims on Loader.cleanup
\* C30: cleanup() of the top-level Loader returns after every load().
C30_CleanupTerminates ==
    (last.op = "cleanup" /\ targets # <<>>) => last.ret = Returned


\* ------------------------------------------- claims on the tree of Loaders
\* the times the sources of a junction named n were staged
Stagings(n) == {i \in DOMAIN log : log[i][1] = "stage" /\ log[i][3] = n}

\* C31: two Loaders of the tree that both hold a Loader for junction name n
\* hold the same Loader, and the sources of junctions named n were staged at
\* most once.
C31_OneLoaderPerJunctionName ==
    \A n \in JNames :
        /\ \A a \in DOMAIN loaders : \A b \in DOMAIN loaders :
              (Holds(a, n) /\ Holds(b, n)) => loaders[a].loaders[n] = loaders[b].loaders[n]
        /\ Cardinality(Stagings(n)) <= 1


\* three Loaders hold the one Loader of a junction that two of them define,
\* each to another project
C31_Witness ==
    \E n \in JNames :
        /\ Cardinality({a \in DOMAIN loaders : Holds(a, n)}) >= 3
        /\ Cardinality(Stagings(n)) = 1
        /\ \E a \in DOMAIN loaders : \E b \in DOMAIN loaders :
              /\ Holds(a, n) /\ Holds(b, n)
              /\ DefinesJunction(a, n) /\ DefinesJunction(b, n)
              /\ files[ProjectOf(a)][n].project # files[ProjectOf(b)][n].project


\* the last call, _get_loader(n) of Loader s, got to Loader a: a is s or an
\* ancestor of s, and no Loader from s up to a had an entry for n
Reaches(s, n, a) ==
    /\ LastGetLoader(s, n)
    /\ a \in {s} \cup Ancestors(s)
    /\ \A b \in ({s} \cup Ancestors(s)) \ ({a} \cup Ancestors(a)) :
          n \notin DOMAIN last.before[b].loaders

\* C32: a lookup of n that gets to a Loader which holds the None of n fails
\* with CONFLICTING_JUNCTION raised by that Loader, whatever the requesting
\* project defines n to be, and makes and records nothing.
C32_AbsentJunctionConflicts ==
    \A s \in DOMAIN last.before : \A a \in DOMAIN last.before : \A n \in JNames :
        (/\ Reaches(s, n, a)
         /\ n \in DOMAIN last.before[a].loaders
         /\ last.before[a].loaders[n] = NoLoader) =>
            /\ err = CONFLICTING_JUNCTION
            /\ last.ret = NoLoader
            /\ log[Len(log)] = <<"conflict", a, n>>
            /\ loaders = last.before
            /\ ~Materialized(s, n)

\* the requesting subproject defines the junction as the sibling does that
\* resolved it, and the None is held by an ancestor
C32_Witness ==
    \E s \in DOMAIN last.before : \E a \in DOMAIN last.before : \E n \in JNames :
        /\ Reaches(s, n, a)
        /\ a \in Ancestors(s) /\ HoldsNone(a, n)
        /\ err = CONFLICTING_JUNCTION
        /\ DefinesJunction(s, n)
        /\ \E s1 \in DOMAIN loaders :
              /\ s1 # s
              /\ HoldsOwn(s1, n)
              /\ files[ProjectOf(s1)][n] = files[ProjectOf(s)][n]


\* --------------------------------------------- claims on the passes of load
\* when the file of node x was parsed
ParseIndex(x) == CHOOSE i \in DOMAIN log : log[i] = <<"parse", x[1], x[2]>>

\* C33: load() returns for every set of element files, with cycles and
\* self-dependencies or without: every file in a Loader's cache was parsed
\* once, every element file but a target after one that depends on it, the
\* first pass never reports a circular dependency, and a cycle in a graph the
\* first pass loaded is reported by the check that follows it.
C33_FirstPassEndsOnCycles ==
    Loaded =>
        /\ \A x \in Nodes : Cardinality(ParsesOf(x[1], x[2])) = 1
        /\ \A y \in Nodes \ TargetNodes :
              y[2] \in Elems =>
                  \E x \in Nodes : y \in Succ(x) /\ ParseIndex(x) < ParseIndex(y)
        /\ last.pass = "load" => err \notin {NoError, CIRCULAR_DEPENDENCY}
        /\ (HasCycle /\ last.pass # "load") =>
              /\ last.pass = "check"
              /\ err = CIRCULAR_DEPENDENCY

\* an element that depends on itself, below an element that is on a cycle of
\* two
C33_Witness ==
    /\ Loaded
    /\ last.pass = "check"
    /\ \E x \in Reachable : x \in Succ(x)
    /\ \E x \in Reachable : \E y \in Reachable : x # y /\ y \in Succ(x) /\ x \in Succ(y)


\* the circular dependency check of the last load() was made
Checked == Loaded /\ last.pass # "load"

\* the full names of the elements reachable from the targets
ReachableNames == {<<loaders[x[1]].junction, x[2]>> : x \in Reachable}

\* C34: in one check no element enters check_elements twice, whatever the
\* number of paths and Loaders that lead to it; check_elements and validated
\* never have a key in common; and when the check raises nothing,
\* check_elements is empty and every reachable element is validated.
C34_EachElementWalkedOnce ==
    Checked =>
        /\ \A i \in DOMAIN last.check.walked : \A j \in DOMAIN last.check.walked :
              last.check.walked[i] = last.check.walked[j] => i = j
        /\ ~last.check.overlap
        /\ last.check.check_elements \cap last.check.validated = {}
        /\ last.check.err = NoError =>
              /\ last.check.check_elements = {}
              /\ last.check.validated = Range(last.check.walked)
              /\ last.check.validated = ReachableNames \cup {<<NoJunction, DummyName>>}

\* an element of a subproject Loader that two elements depend on, one of
\* them of another Loader
C34_Witness ==
    /\ Checked
    /\ last.check.err = NoError
    /\ \E z \in Reachable : \E x \in Reachable : \E y \in Reachable :
          /\ z[1] # RootLoader
          /\ x # y /\ x[1] # y[1]
          /\ z \in Succ(x) \cap Succ(y)


\* the orders in which the dependencies of a list can be declared
Orders(list) ==
    {p \in [DOMAIN list -> Range(list)] : \A i, j \in DOMAIN list : p[i] = p[j] => i = j}

\* C35: the sorted dependency list of the target is the one that the sort
\* gives for every other order in which the same dependencies are declared.
C35_SortIgnoresDeclaredOrder ==
    (Sorted /\ err = NoError) =>
        \A p \in Orders(files[TopProject][Target].deps) :
            ListSort(Now, RootLoader, p) = loaders[RootLoader].elements[Target]

\* ------------------------------------- claims on the order of the staging
\* the entries the log got since the last call of _get_loader began
SinceCall ==
    {j \in DOMAIN log : \E c \in 1..(j - 1) :
        log[c][1] = "call" /\ \A k \in (c + 1)..Len(log) : log[k][1] # "call"}

\* source i of junction n of Loader l is CACHED when entry j is logged: it
\* was so from the start, or fetch() was called on it before
UsableAt(j, l, n, i) ==
    \/ FileOf(l, n).sources[i] = "CACHED"
    \/ \E k \in 1..(j - 1), f \in DOMAIN loaders :
          log[k] = <<"fetch", f, loaders[l].project, n, i>>

\* C36: a checkout directory is made, and sources are staged into it, only
\* once every source of the junction is CACHED or was fetched; when a
\* resolution fails with SUBPROJECT_FETCH_NEEDED or SUBPROJECT_INCONSISTENT it
\* has made no directory and staged nothing, and the Loader that read the
\* junction has no entry and no child Loader for it.
C36_StagedOnlyAfterSourcesChecked ==
    /\ \A j \in DOMAIN log :
          log[j][1] = "mkdtemp" =>
              /\ j < Len(log)
              /\ log[j + 1][1] = "stage"
              /\ log[j + 1][4] = log[j][2]
              /\ \A i \in DOMAIN FileOf(log[j + 1][2], log[j + 1][3]).sources :
                    UsableAt(j, log[j + 1][2], log[j + 1][3], i)
    /\ \A j \in DOMAIN log :
          log[j][1] = "stage" => j > 1 /\ log[j - 1][1] = "mkdtemp"
    /\ err \in {SUBPROJECT_FETCH_NEEDED, SUBPROJECT_INCONSISTENT} =>
          /\ \A j \in SinceCall : log[j][1] \notin {"mkdtemp", "stage"}
          /\ dirs = Created
          /\ \A l \in DOMAIN loaders :
                (\E j \in SinceCall : log[j] = <<"parse", l, last.name>>) =>
                    /\ ~StagedBy(l, last.name)
                    /\ NoChild(l, last.name)

\* a junction whose first source was fetched and whose second has no ref
\* fails after an earlier junction was staged
C36_Witness ==
    /\ err = SUBPROJECT_INCONSISTENT
    /\ Created # {}
    /\ \E l \in DOMAIN loaders :
          /\ \E j \in SinceCall : log[j] = <<"parse", l, last.name>>
          /\ FileOf(l, last.name).sources = <<"RESOLVED", "INCONSISTENT">>
          /\ Fetched(l, last.name, 1)
          /\ NoChild(l, last.name)

=============================================================================
